---------------------------- MODULE Spec2Model ----------------------------
(***************************************************************************)
(* A model of clihost.py: the PTY session, the readiness and quiet         *)
(* heuristics, the timed injection cycle, the keyboard proxy, the feed     *)
(* consumer (ws_consumer) and the lifecycle controller (main).             *)
(*                                                                         *)
(* Time is in milliseconds.  Every sleeping coroutine holds a countdown;   *)
(* Tick advances time to the next expiry, so timers fire exactly when due  *)
(* and the environment (child output, frames, keys, signals) acts at those *)
(* instants.  now - _last_activity is kept as `idle`, saturated at the     *)
(* quiet threshold, the only value it is ever compared with.               *)
(* Bytes and characters are integers (code points, octets).                *)
(***************************************************************************)
EXTENDS Integers, Sequences, FiniteSets, TLC

\* ------------------------------------------------------------- bounds
\* the environment acts at most MaxEvents times in a run: an event is a
\* connection attempt, an inbound frame, a read of local input, a chunk of child
\* output, a would-block result of a write to the PTY, a signal to the host, or
\* the exit of the child
MaxEvents == 4
\* the connection attempts that fail in a row
MaxFails == 7
\* the chunks of output that are counted during the startup sequence
MaxOutputs == 2

\* ------------------------------------------------- program constants
READY_TIMEOUT_MS == 30000
QUIET_AFTER_READY_MS == 800
QUIET_WAIT_TIMEOUT_MS == 15000
PREPROMPT_DELAY_MS == 3000
SUBMIT_DELAY_MS == 60
QUIET_POLL_MS == 50
WRITE_RETRY_MS == 5
BACKOFF_START == 1
BACKOFF_CAP == 30
TERMINATE_GRACE_MS == 5000

EXIT_ON_ERROR == TRUE
RECONNECT == TRUE
LOCAL_KEYBOARD_FORWARD == TRUE

CR == 13
BACKSLASH == 92

\* "\r" as written in the source: the one character CR
WAKE_KEYS == <<CR>>
SUBMIT_SEQ == <<CR>>
\* "lv:"
MARKER == <<108, 118, 58>>
\* the preprompt text, abstracted to two characters ("Pp"); its strip() is non-empty
DEFAULT_PREPROMPT == <<80, 112>>

NoTimer == -1
\* proc.returncode is None
NoCode == -1000

\* ---------------------------------------------------------- utilities
Min(a, b) == IF a <= b THEN a ELSE b

RECURSIVE Flatten(_)
Flatten(ss) == IF ss = <<>> THEN <<>> ELSE Head(ss) \o Flatten(Tail(ss))

IsPrefix(s, t) == Len(s) <= Len(t) /\ s = SubSeq(t, 1, Len(s))

\* str.encode("utf-8", errors="replace") on code points below 0x800
Utf8Char(c) ==
    IF c < 128 THEN <<c>>
    ELSE <<192 + (c \div 64), 128 + (c % 64)>>

Encode(text) == Flatten([i \in 1..Len(text) |-> Utf8Char(text[i])])

\* bytes.decode("unicode_escape") of the UTF-8 bytes: \r, \n and \\ escapes
\* are interpreted, every other byte becomes the character of that value
RECURSIVE UnicodeEscape(_)
UnicodeEscape(bs) ==
    IF bs = <<>> THEN <<>>
    ELSE IF Head(bs) = BACKSLASH /\ Len(bs) >= 2 /\ bs[2] \in {114, 110, BACKSLASH}
         THEN <<CASE bs[2] = 114 -> CR [] bs[2] = 110 -> 10 [] OTHER -> BACKSLASH>>
              \o UnicodeEscape(SubSeq(bs, 3, Len(bs)))
         ELSE <<Head(bs)>> \o UnicodeEscape(Tail(bs))

_decode_escapes(s) == UnicodeEscape(Encode(s))

\* ------------------------------------------------------ inbound frames
\* A text frame as received: `raw` is the frame's text, `form` is what
\* json.loads makes of it, the other fields are the parsed object's members.
NoText == <<0>>
Frame(form, type, text, cmd, b64, raw) ==
    [form |-> form, type |-> type, text |-> text, cmd |-> cmd, b64 |-> b64, raw |-> raw]

\* msg.get("bytes_b64", "") of an object without that member
NoPayload == <<>>
ChatFrame(t) == Frame("object", "chat", t, "none", NoPayload, <<123, 99>> \o t \o <<125>>)
ChatNoText == Frame("object", "chat", NoText, "none", NoPayload, <<123, 99, 125>>)
RawFrame(p) == Frame("object", "raw", NoText, "none", p, <<123, 114>> \o p \o <<125>>)
QuitFrame == Frame("object", "control", NoText, "quit", NoPayload, <<123, 113, 125>>)
ControlOther == Frame("object", "control", NoText, "other", NoPayload, <<123, 111, 125>>)
UnknownType == Frame("object", "other", NoText, "none", NoPayload, <<123, 117, 125>>)
NonObject == Frame("nonobject", "none", NoText, "none", NoPayload, <<91, 93>>)
Garbage(t) == Frame("garbage", "none", NoText, "none", NoPayload, t)

\* the payloads of the raw frames: "G1tB" (1B 5B 41), "" and "G1t" (not base64)
Payloads == {<<71, 49, 116, 66>>, <<>>, <<71, 49, 116>>}

Texts == {<<97>>, <<98>>}
Frames ==
    {ChatFrame(t) : t \in Texts} \cup {Garbage(t) : t \in Texts}
      \cup {RawFrame(p) : p \in Payloads}
      \cup {ChatNoText,
            QuitFrame, ControlOther, UnknownType, NonObject}

\* base64.b64decode(p), not validating: the value of a character of the
\* alphabet, the characters that count, the padding
B64Value(c) ==
    CASE c \in 65..90 -> c - 65
      [] c \in 97..122 -> c - 71
      [] c \in 48..57 -> c + 4
      [] c = 43 -> 62
      [] c = 47 -> 63
      [] OTHER -> 64

B64Data(p) == SelectSeq(p, LAMBDA c : B64Value(c) < 64)
B64Pads(p) == Len(SelectSeq(p, LAMBDA c : c = 61))

\* four characters give three bytes, three give two, two give one
B64Decode(p) ==
    LET cs == B64Data(p)
        n == Len(cs)
        v(i) == IF i <= n THEN B64Value(cs[i]) ELSE 0
        word(g) == v(4 * g + 1) * 262144 + v(4 * g + 2) * 4096 + v(4 * g + 3) * 64
                     + v(4 * g + 4)
        len == 3 * (n \div 4) + (IF n % 4 >= 2 THEN (n % 4) - 1 ELSE 0)
    IN  [j \in 1..len |->
            LET w == word((j - 1) \div 3)
            IN  CASE (j - 1) % 3 = 0 -> w \div 65536
                  [] (j - 1) % 3 = 1 -> (w \div 256) % 256
                  [] OTHER -> w % 256]

\* binascii.Error: a single character left over, or padding missing
B64Fails(p) ==
    LET n == Len(B64Data(p)) % 4
    IN  n = 1 \/ (n # 0 /\ B64Pads(p) < 4 - n)

\* a variant of lines 332-335 that drops a frame json.loads rejects
Parse_Drop(f) ==
    [form |-> IF f.form = "garbage" THEN "object" ELSE f.form,
     type |-> f.type, text |-> f.text, cmd |-> f.cmd, b64 |-> f.b64]

\* lines 332-335: json.loads, and the fallback on JSONDecodeError
Parse(f) ==
    IF f.form = "garbage"
    THEN [form |-> "object", type |-> "chat", text |-> f.raw, cmd |-> "none", b64 |-> NoPayload]
    ELSE [form |-> f.form, type |-> f.type, text |-> f.text, cmd |-> f.cmd, b64 |-> f.b64]

\* a variant of line 339 that passes the text on without the marker
ChatText_NoMarker(msg) == IF msg.text = NoText THEN <<>> ELSE msg.text

\* line 338-339: msg.get("text", ""), f"lv:{base}"
ChatText(msg) == MARKER \o (IF msg.text = NoText THEN <<>> ELSE msg.text)


\* -------------------------------------------------------------- state
VARIABLES
    exitOnError,  \* EXIT_ON_ERROR
    reconnect,    \* RECONNECT
    fds,          \* the PTY handles that are open
    cpc,          \* ws_consumer: where the coroutine stands
    cw,           \* ws_consumer: the write_bytes call in progress
    inj,          \* ws_consumer: the try_execute_prompt call in progress
    cSleep,       \* ws_consumer: ms left of its asyncio.sleep, or NoTimer
    backoff,      \* ws_consumer: backoff, in seconds
    attempts,     \* connection attempts made
    conns,        \* connections established
    fails,        \* transport errors since the last connection was established
    qQuiet,       \* wait_quiet: q, in ms
    qTimeout,     \* wait_quiet: t, in ms
    qDeadline,    \* wait_quiet: deadline - now, in ms
    qIdle0,       \* idle when wait_quiet was called
    qOut0,        \* outputs when wait_quiet was called
    recvLog,      \* the frames dispatched so far, in order
    stages,       \* what the consumer has done on the current connection, in order
    cycleLog,     \* the try_execute_prompt calls made: origin and text, in call order
    ready,        \* _ready_event
    readySets,    \* the number of _ready_event.set() calls that latched it
    readyBy,      \* what latched it: "match", "timeout", or "none"
    sinceReader,  \* ms from the first start_reader call to now, or to the latch
    readyTimers,  \* ms left of each pending _ready_timeout task
    readerOn,     \* _readable is registered on the master fd
    idle,         \* now - _last_activity, saturated at IdleCap
    outputs,      \* chunks of child output read
    ptyIn,        \* the bytes accepted by the PTY master, each with its origin
    blocks,       \* would-block results so far
    scanBuf,      \* _scanner_buf, as code points
    localOut,     \* what was written to the local output, write by write
    reads,        \* the chunks of child output read, in order
    kbOn,         \* KeyboardProxy: _on_stdin_ready is registered
    kbAdded,      \* KeyboardProxy._reader_added
    kbRestore,    \* KeyboardProxy._restore is set
    restores,     \* the number of times restore() has run
    restoreOk,    \* how tcsetattr ended in restore(): "none", "ok" or "failed"
    kbStops,      \* calls of KeyboardProxy.stop so far
    term,         \* the attributes of the local terminal: "orig" or "cbreak";
                  \* "none" when there is no controlling terminal
    kbTasks,      \* the write_bytes tasks of the keyboard proxy
    kbReads,      \* reads of local input so far
    child,        \* "alive" or "exited"
    stopSet,      \* stop_event
    mpc,          \* main: where the coroutine stands
    grace,        \* main: ms left of wait_for(proc.wait(), 5.0), or NoTimer
    termSent,     \* proc.terminate() was called
    killSent,     \* proc.kill() was called
    returncode,   \* proc.returncode, or NoCode
    exitCode      \* the exit status of the host, or NoCode

\* what no step of the program changes
cfgVars == <<exitOnError, reconnect, fds>>
quietVars == <<qQuiet, qTimeout, qDeadline, qIdle0, qOut0>>
connVars == <<backoff, attempts, conns, fails>>
consVars == <<cpc, cw, inj, cSleep, connVars, quietVars, recvLog, stages, cycleLog>>
readyVars == <<ready, readySets, readyBy, sinceReader, readyTimers>>
ptyVars == <<readyVars, readerOn, idle, outputs, ptyIn, blocks>>
\* the data of the child's output; it is followed where the reader is given
\* the chunks it reads (ReaderChunk), and left out where the reader is given
\* only their number and whether they complete the ready pattern
ioVars == <<scanBuf, localOut, reads>>
kbCtl == <<kbOn, kbAdded, kbRestore, restores, restoreOk, kbStops, term>>
kbVars == <<kbCtl, kbTasks, kbReads>>
codeVars == <<returncode, exitCode>>
mainVars == <<child, stopSet, mpc, grace, termSent, killSent, codeVars>>
vars == <<cfgVars, ioVars, consVars, ptyVars, kbVars, mainVars>>

IdleCap == QUIET_AFTER_READY_MS

Events ==
    attempts + Len(recvLog) + kbReads + outputs + blocks
      + (IF stopSet THEN 1 ELSE 0) + (IF child = "exited" THEN 1 ELSE 0)
Budget == Events < MaxEvents

Tag(src, id, part) == [src |-> src, id |-> id, part |-> part]
NoTag == Tag("none", 0, "-")
NoWrite == [data |-> <<>>, total |-> 0, tag |-> NoTag, ret |-> "none"]
NoInj == [text |-> <<>>, pre |-> 0, src |-> "none", ret |-> "none"]

\* the bytes data[total+1 .. total+k], as accepted by the PTY for the write `tag`
Accepted(data, total, k, tag) ==
    [i \in 1..k |-> [src |-> tag.src, id |-> tag.id, part |-> tag.part, b |-> data[total + i]]]

Bytes(stream) == [i \in 1..Len(stream) |-> stream[i].b]

KeyData == {<<120, 121>>}

Running == mpc # "exited"

\* ---------------------------------------------------- the event loop
ConsumerDone == cpc \in {"done_child", "done_error", "done_quit", "cancelled"}

\* the consumer cannot take a step by itself: it sleeps or awaits an event
ConsumerWaits ==
    \/ ConsumerDone
    \/ cSleep >= 0
    \/ cpc \in {"none", "connecting", "recv"}
    \/ cpc = "wait_ready" /\ ~ready

MainRunnable ==
    \/ mpc \in {"boot", "finally", "kb_stop", "terminate", "exit"}
    \/ mpc = "waiting" /\ (child = "exited" \/ stopSet)
    \/ mpc \in {"grace", "killed"} /\ child = "exited"

KbSleeps == {kbTasks[i].sleep : i \in 1..Len(kbTasks)}

\* One event loop runs every task: a task that can run does so before the loop
\* polls for I/O, signals and timers again.  The environment is observed, and
\* time passes, only when every task awaits something.
AllAwait ==
    /\ Running
    /\ ConsumerWaits
    /\ ~MainRunnable
    /\ NoTimer \notin KbSleeps

\* lines 195-200: a _ready_timeout task that wakes up when the event is set does
\* nothing; such tasks are not kept in the state
Pending(isSet, timers) == IF isSet THEN {} ELSE timers

\* ------------------------------------------------------- write_bytes
\* lines 225-235.  The loop has no suspension point while os.write accepts
\* bytes: one step runs it until all bytes are accepted (k = rest) or until a
\* BlockingIOError after k more bytes, which suspends it for 5 ms.
WriteSteps(data, total) ==
    {k \in 0..(Len(data) - total) : k = Len(data) - total \/ Budget}

\* a variant of write_bytes that stamps the last activity when it writes
ConsumerWrite_Stamps ==
    /\ Running /\ cpc = "write" /\ cSleep = NoTimer
    /\ \E k \in WriteSteps(cw.data, cw.total) :
          /\ ptyIn' = ptyIn \o Accepted(cw.data, cw.total, k, cw.tag)
          /\ IF cw.total + k = Len(cw.data)
             THEN /\ cpc' = cw.ret
                  /\ cw' = NoWrite
                  /\ UNCHANGED <<cSleep, blocks>>
             ELSE /\ cw' = [cw EXCEPT !.total = cw.total + k]
                  /\ cSleep' = WRITE_RETRY_MS
                  /\ blocks' = blocks + 1
                  /\ UNCHANGED cpc
    /\ idle' = 0
    /\ UNCHANGED <<cfgVars, ioVars, inj, connVars, quietVars, recvLog, stages, cycleLog, readyVars,
                   readerOn, outputs, kbVars, mainVars>>

ConsumerWrite ==
    /\ Running /\ cpc = "write" /\ cSleep = NoTimer
    /\ \E k \in WriteSteps(cw.data, cw.total) :
          /\ ptyIn' = ptyIn \o Accepted(cw.data, cw.total, k, cw.tag)
          /\ IF cw.total + k = Len(cw.data)
             THEN /\ cpc' = cw.ret
                  /\ cw' = NoWrite
                  /\ UNCHANGED <<cSleep, blocks>>
             ELSE /\ cw' = [cw EXCEPT !.total = cw.total + k]
                  /\ cSleep' = WRITE_RETRY_MS
                  /\ blocks' = blocks + 1
                  /\ UNCHANGED cpc
    /\ UNCHANGED <<cfgVars, ioVars, inj, connVars, quietVars, recvLog, stages, cycleLog, readyVars,
                   readerOn, idle, outputs, kbVars, mainVars>>

\* an asyncio.sleep of the consumer is over
ConsumerSleepDone ==
    /\ Running /\ cSleep = 0 /\ cpc \notin {"cancelled"}
    /\ cSleep' = NoTimer
    /\ UNCHANGED <<cfgVars, ioVars, cpc, cw, inj, connVars, quietVars, recvLog, stages, cycleLog,
                   ptyVars, kbVars, mainVars>>

\* write_text(text) called where the consumer stands: start write_bytes
StartWrite(text, tag, ret) ==
    /\ cw' = [data |-> Encode(text), total |-> 0, tag |-> tag, ret |-> ret]
    /\ cpc' = "write"

\* ------------------------------------------------- try_execute_prompt
\* line 241-243: the call, and the pre-delay when there is one
StartInjection(text, pre, src, ret) ==
    /\ inj' = [text |-> text, pre |-> pre, src |-> src, ret |-> ret]
    /\ cycleLog' = Append(cycleLog, [src |-> src, text |-> text])
    /\ cpc' = "inj_text"
    /\ cSleep' = IF pre > 0 THEN pre ELSE NoTimer

\* line 244: write_text(text)
InjText ==
    /\ Running /\ cpc = "inj_text" /\ cSleep = NoTimer
    /\ StartWrite(inj.text, Tag(inj.src, Len(cycleLog), "text"), "inj_delay")
    /\ UNCHANGED <<cfgVars, ioVars, inj, cSleep, connVars, quietVars, recvLog, stages, cycleLog,
                   ptyVars, kbVars, mainVars>>

\* a variant of line 245-246 that returns to the caller without the submit
\* sequence
InjDelay_NoSubmit ==
    /\ Running /\ cpc = "inj_delay" /\ cSleep = NoTimer
    /\ cpc' = inj.ret
    /\ inj' = NoInj
    /\ UNCHANGED <<cfgVars, ioVars, cw, cSleep, connVars, quietVars, recvLog, stages, cycleLog,
                   ptyVars, kbVars, mainVars>>

\* line 245: sleep(SUBMIT_DELAY_MS)
InjDelay ==
    /\ Running /\ cpc = "inj_delay" /\ cSleep = NoTimer
    /\ cSleep' = SUBMIT_DELAY_MS
    /\ cpc' = "inj_submit"
    /\ UNCHANGED <<cfgVars, ioVars, cw, inj, connVars, quietVars, recvLog, stages, cycleLog,
                   ptyVars, kbVars, mainVars>>

\* line 246: write_text(_decode_escapes(SUBMIT_SEQ)), then back to the caller
InjSubmit ==
    /\ Running /\ cpc = "inj_submit" /\ cSleep = NoTimer
    /\ StartWrite(_decode_escapes(SUBMIT_SEQ), Tag(inj.src, Len(cycleLog), "submit"), inj.ret)
    /\ inj' = NoInj
    /\ UNCHANGED <<cfgVars, ioVars, cSleep, connVars, quietVars, recvLog, stages, cycleLog,
                   ptyVars, kbVars, mainVars>>

\* no data of the child's output is kept
NoData == scanBuf = <<>> /\ localOut = <<>> /\ reads = <<>>

\* --------------------------------------------------------- ws_consumer
\* lines 296-298: the top of the loop
LoopTop ==
    /\ Running /\ cpc = "loop" /\ cSleep = NoTimer
    /\ cpc' = IF child # "alive" THEN "done_child" ELSE "connecting"
    /\ UNCHANGED <<cfgVars, ioVars, cw, inj, cSleep, connVars, quietVars, recvLog, stages, cycleLog,
                   ptyVars, kbVars, mainVars>>

\* a variant of lines 358-361 that looks at RECONNECT first and backs off
\* when it is on
HandleError_ReconnectFirst ==
    IF ~reconnect
    THEN /\ cpc' = "done_error"
         /\ cSleep' = NoTimer
    ELSE /\ cpc' = "backoff"
         /\ cSleep' = backoff * 1000

\* lines 356-363: the handler of a transport error (any Exception)
HandleError ==
    IF exitOnError \/ ~reconnect
    THEN /\ cpc' = "done_error"
         /\ cSleep' = NoTimer
    ELSE /\ cpc' = "backoff"
         /\ cSleep' = backoff * 1000

\* a variant of lines 300-305 that sends no hello frame
ConnectOk_NoHello ==
    /\ AllAwait /\ cpc = "connecting" /\ Budget
    /\ attempts' = attempts + 1
    /\ conns' = conns + 1
    /\ backoff' = BACKOFF_START
    /\ fails' = 0
    /\ cpc' = "start_reader"
    /\ stages' = <<>>
    /\ UNCHANGED <<cfgVars, ioVars, cw, inj, cSleep, quietVars, recvLog, cycleLog,
                   ptyVars, kbVars, mainVars>>

\* a variant of lines 300-301 that keeps the backoff of the failures before
ConnectOk_NoReset ==
    /\ AllAwait /\ cpc = "connecting" /\ Budget
    /\ attempts' = attempts + 1
    /\ conns' = conns + 1
    /\ fails' = 0
    /\ cpc' = "start_reader"
    /\ stages' = <<"hello">>
    /\ UNCHANGED <<cfgVars, ioVars, cw, inj, cSleep, backoff, quietVars, recvLog, cycleLog,
                   ptyVars, kbVars, mainVars>>

\* lines 300-305: the connection is established, hello is sent
ConnectOk ==
    /\ AllAwait /\ cpc = "connecting" /\ Budget
    /\ attempts' = attempts + 1
    /\ conns' = conns + 1
    /\ backoff' = BACKOFF_START
    /\ fails' = 0
    /\ cpc' = "start_reader"
    /\ stages' = <<"hello">>
    /\ UNCHANGED <<cfgVars, ioVars, cw, inj, cSleep, quietVars, recvLog, cycleLog,
                   ptyVars, kbVars, mainVars>>

\* line 300: the connection attempt fails
ConnectError ==
    /\ AllAwait /\ cpc = "connecting"
    /\ attempts' = attempts + 1
    /\ fails' = fails + 1
    /\ HandleError
    /\ UNCHANGED <<cfgVars, ioVars, cw, inj, backoff, conns, quietVars, recvLog, stages, cycleLog,
                   ptyVars, kbVars, mainVars>>

ConnectFail == Budget /\ ConnectError

\* a variant of line 363 without the cap
BackoffDone_NoCap ==
    /\ Running /\ cpc = "backoff" /\ cSleep = NoTimer
    /\ backoff' = backoff * 2
    /\ cpc' = "loop"
    /\ UNCHANGED <<cfgVars, ioVars, cw, inj, cSleep, attempts, conns, fails, quietVars, recvLog,
                   stages, cycleLog, ptyVars, kbVars, mainVars>>

\* lines 362-363: the backoff sleep is over
BackoffDone ==
    /\ Running /\ cpc = "backoff" /\ cSleep = NoTimer
    /\ backoff' = Min(backoff * 2, BACKOFF_CAP)
    /\ cpc' = "loop"
    /\ UNCHANGED <<cfgVars, ioVars, cw, inj, cSleep, attempts, conns, fails, quietVars, recvLog,
                   stages, cycleLog, ptyVars, kbVars, mainVars>>

\* a variant of start_reader that makes a new, unset event on every call
StartReader_NewEvent ==
    /\ Running /\ cpc = "start_reader"
    /\ readerOn' = TRUE
    /\ ready' = FALSE
    /\ readyTimers' = readyTimers \cup {READY_TIMEOUT_MS}
    /\ sinceReader' = IF sinceReader = NoTimer THEN 0 ELSE sinceReader
    /\ cpc' = "wake"
    /\ stages' = Append(stages, "reader")
    /\ UNCHANGED <<cfgVars, ioVars, cw, inj, cSleep, connVars, quietVars, recvLog, cycleLog,
                   readySets, readyBy, idle, outputs, ptyIn, blocks, kbVars, mainVars>>

\* line 308, lines 140-201: start_reader registers _readable and starts a
\* _ready_timeout task
StartReader ==
    /\ Running /\ cpc = "start_reader"
    /\ readerOn' = TRUE
    /\ readyTimers' = Pending(ready, readyTimers \cup {READY_TIMEOUT_MS})
    /\ sinceReader' = IF sinceReader = NoTimer THEN 0 ELSE sinceReader
    /\ cpc' = "wake"
    /\ stages' = Append(stages, "reader")
    /\ UNCHANGED <<cfgVars, ioVars, cw, inj, cSleep, connVars, quietVars, recvLog, cycleLog,
                   ready, readySets, readyBy, idle, outputs, ptyIn, blocks, kbVars,
                   mainVars>>

\* lines 311-315: the wake keys
WakeKeys ==
    /\ Running /\ cpc = "wake"
    /\ IF WAKE_KEYS # <<>>
       THEN StartWrite(_decode_escapes(WAKE_KEYS), Tag("wake", conns, "-"), "wait_ready")
       ELSE cpc' = "wait_ready" /\ UNCHANGED cw
    /\ stages' = Append(stages, "wake")
    /\ UNCHANGED <<cfgVars, ioVars, inj, cSleep, connVars, quietVars, recvLog, cycleLog,
                   ptyVars, kbVars, mainVars>>

\* lines 208-212: wait_quiet(q, t) is called and computes its deadline
EnterWaitQuiet(q, t) ==
    /\ qQuiet' = q
    /\ qTimeout' = t
    /\ qDeadline' = t
    /\ qIdle0' = idle
    /\ qOut0' = outputs

\* wait_quiet has returned, or was cancelled: its locals are gone
LeaveWaitQuiet ==
    qQuiet' = 0 /\ qTimeout' = 0 /\ qDeadline' = 0 /\ qIdle0' = 0 /\ qOut0' = 0

\* a variant of lines 318-319 that does not wait for the event
WaitReady_NoWait ==
    /\ Running /\ cpc = "wait_ready"
    /\ cpc' = "wait_quiet"
    /\ EnterWaitQuiet(QUIET_AFTER_READY_MS, QUIET_WAIT_TIMEOUT_MS)
    /\ stages' = Append(stages, "ready")
    /\ UNCHANGED <<cfgVars, ioVars, cw, inj, cSleep, connVars, recvLog, cycleLog,
                   ptyVars, kbVars, mainVars>>

\* line 318, lines 203-206: wait_ready returns once the event is set; then
\* line 319: wait_quiet is called
WaitReady ==
    /\ Running /\ cpc = "wait_ready" /\ ready
    /\ cpc' = "wait_quiet"
    /\ EnterWaitQuiet(QUIET_AFTER_READY_MS, QUIET_WAIT_TIMEOUT_MS)
    /\ stages' = Append(stages, "ready")
    /\ UNCHANGED <<cfgVars, ioVars, cw, inj, cSleep, connVars, recvLog, cycleLog,
                   ptyVars, kbVars, mainVars>>

\* a variant of line 215 with a strict comparison
QuietReached_Strict == idle > qQuiet

\* lines 214-222: the two tests of one poll of wait_quiet
QuietReached == idle >= qQuiet

\* a variant of lines 219-222 without the deadline
DeadlineReached_Never == FALSE

DeadlineReached == qDeadline <= 0

\* lines 213-223: one poll of wait_quiet: return, or sleep 50 ms
WaitQuietPoll ==
    /\ Running /\ cpc = "wait_quiet" /\ cSleep = NoTimer
    /\ IF QuietReached \/ DeadlineReached
       THEN /\ cpc' = "preprompt"
            /\ LeaveWaitQuiet
            /\ stages' = Append(stages, "quiet")
            /\ UNCHANGED cSleep
       ELSE cSleep' = QUIET_POLL_MS /\ UNCHANGED <<cpc, quietVars, stages>>
    /\ UNCHANGED <<cfgVars, ioVars, cw, inj, connVars, recvLog, cycleLog,
                   ptyVars, kbVars, mainVars>>

\* lines 320-327: the preprompt
Preprompt ==
    /\ Running /\ cpc = "preprompt"
    /\ IF DEFAULT_PREPROMPT # <<>>
       THEN StartInjection(DEFAULT_PREPROMPT, PREPROMPT_DELAY_MS, "pre", "recv")
       ELSE cpc' = "recv" /\ UNCHANGED <<inj, cycleLog, cSleep>>
    /\ stages' = Append(stages, "preprompt")
    /\ UNCHANGED <<cfgVars, ioVars, cw, connVars, quietVars, recvLog, ptyVars, kbVars, mainVars>>

\* a variant of lines 347-350 that sends the decoded bytes through the
\* injection cycle
Dispatch_RawAsPrompt(msg) ==
    IF msg.form # "object"
    THEN HandleError /\ UNCHANGED <<cw, inj, cycleLog>>
    ELSE IF msg.type = "chat"
    THEN StartInjection(ChatText(msg), 0, "chat", "recv") /\ UNCHANGED cw
    ELSE IF msg.type = "raw"
    THEN IF msg.b64 = <<>>
         THEN cpc' = "recv" /\ UNCHANGED <<cw, inj, cycleLog, cSleep>>
         ELSE IF B64Fails(msg.b64)
         THEN HandleError /\ UNCHANGED <<cw, inj, cycleLog>>
         ELSE StartInjection(B64Decode(msg.b64), 0, "raw", "recv") /\ UNCHANGED cw
    ELSE IF msg.type = "control" /\ msg.cmd = "quit"
    THEN cpc' = "done_quit" /\ UNCHANGED <<cw, inj, cycleLog, cSleep>>
    ELSE cpc' = "recv" /\ UNCHANGED <<cw, inj, cycleLog, cSleep>>

\* lines 337-352: the dispatch of a parsed message
Dispatch(msg) ==
    IF msg.form # "object"
    THEN \* msg.get raises AttributeError
         HandleError /\ UNCHANGED <<cw, inj, cycleLog>>
    ELSE IF msg.type = "chat"
    THEN StartInjection(ChatText(msg), 0, "chat", "recv") /\ UNCHANGED cw
    ELSE IF msg.type = "raw"
    THEN IF msg.b64 = <<>>
         THEN cpc' = "recv" /\ UNCHANGED <<cw, inj, cycleLog, cSleep>>
         ELSE IF B64Fails(msg.b64)
         THEN HandleError /\ UNCHANGED <<cw, inj, cycleLog>>
         ELSE /\ cw' = [data |-> B64Decode(msg.b64), total |-> 0,
                        tag |-> Tag("raw", Len(recvLog) + 1, "-"), ret |-> "recv"]
              /\ cpc' = "write"
              /\ UNCHANGED <<inj, cycleLog, cSleep>>
    ELSE IF msg.type = "control" /\ msg.cmd = "quit"
    THEN cpc' = "done_quit" /\ UNCHANGED <<cw, inj, cycleLog, cSleep>>
    ELSE cpc' = "recv" /\ UNCHANGED <<cw, inj, cycleLog, cSleep>>

\* a variant of lines 329-352 that does not look at proc.returncode
RecvStep_NoCheck(f, msg) ==
    /\ cpc = "recv"
    /\ recvLog' = Append(recvLog, f)
    /\ Dispatch(msg)
    /\ fails' = IF cpc' \in {"backoff", "done_error"} THEN fails + 1 ELSE fails
    /\ UNCHANGED <<cfgVars, ioVars, backoff, attempts, conns, quietVars, stages, ptyVars, kbVars,
                   mainVars>>

\* lines 329-352: one turn of `async for raw in ws` with the frame f
RecvStep(f, msg) ==
    /\ cpc = "recv"
    /\ IF child # "alive"
       THEN \* line 330-331: break, and back to the top of the loop
            /\ cpc' = "loop"
            /\ UNCHANGED <<cw, inj, cycleLog, cSleep, recvLog>>
       ELSE /\ recvLog' = Append(recvLog, f)
            /\ Dispatch(msg)
    /\ fails' = IF cpc' \in {"backoff", "done_error"} THEN fails + 1 ELSE fails
    /\ UNCHANGED <<cfgVars, ioVars, backoff, attempts, conns, quietVars, stages, ptyVars, kbVars,
                   mainVars>>

\* lines 329-335: the next frame arrives
RecvFrameAs(f, msg) == AllAwait /\ Budget /\ RecvStep(f, msg)

\* lines 329-331: a frame arrives in the poll of the event loop in which the
\* child's exit is noticed: the consumer is resumed with it before main, which
\* is woken through the proc.wait() task and asyncio.wait, cancels it
RecvLate ==
    /\ Running /\ child = "exited" /\ mpc \in {"waiting", "finally"}
    /\ \E f \in Frames : RecvStep(f, Parse(f))

\* lines 332-335: the frame is parsed, then dispatched
RecvFrame(f) == RecvFrameAs(f, Parse(f))

Recv == \E f \in Frames : RecvFrame(f)

\* line 329: the server closes the connection cleanly: the iteration ends,
\* the connection's context is left and the loop starts over
RecvClosed ==
    /\ AllAwait /\ cpc = "recv"
    /\ cpc' = "loop"
    /\ UNCHANGED <<cfgVars, ioVars, cw, inj, cSleep, connVars, quietVars, recvLog, stages, cycleLog,
                   ptyVars, kbVars, mainVars>>

\* line 329: the connection fails (ConnectionClosedError)
RecvError ==
    /\ AllAwait /\ cpc = "recv"
    /\ HandleError
    /\ fails' = fails + 1
    /\ UNCHANGED <<cfgVars, ioVars, cw, inj, backoff, attempts, conns, quietVars, recvLog, stages,
                   cycleLog, ptyVars, kbVars, mainVars>>

\* what os.write has accepted when a later os.write of the same call raises
ErrorSteps(data, total) == {0, (Len(data) - total) \div 2}

\* a variant of write_bytes that swallows the OSError and returns to its
\* caller
ConsumerWriteError_Swallow ==
    /\ Running /\ cpc = "write" /\ cSleep = NoTimer
    /\ \E k \in ErrorSteps(cw.data, cw.total) :
          ptyIn' = ptyIn \o Accepted(cw.data, cw.total, k, cw.tag)
    /\ cpc' = cw.ret
    /\ cw' = NoWrite
    /\ UNCHANGED <<cfgVars, ioVars, inj, cSleep, connVars, quietVars, recvLog, stages, cycleLog,
                   readyVars, readerOn, idle, outputs, blocks, kbVars, mainVars>>

\* lines 225-235 and 354-363: os.write raises an OSError, which write_bytes
\* does not catch; it leaves the injection and the connection and reaches the
\* handler of ws_consumer
ConsumerWriteError ==
    /\ Running /\ cpc = "write" /\ cSleep = NoTimer
    /\ \E k \in ErrorSteps(cw.data, cw.total) :
          ptyIn' = ptyIn \o Accepted(cw.data, cw.total, k, cw.tag)
    /\ HandleError
    /\ fails' = fails + 1
    /\ cw' = NoWrite
    /\ inj' = NoInj
    /\ UNCHANGED <<cfgVars, ioVars, backoff, attempts, conns, quietVars, recvLog, stages, cycleLog,
                   readyVars, readerOn, idle, outputs, blocks, kbVars, mainVars>>

\* ------------------------------------------------------ the PTY reader
\* line 166: data.decode("utf-8", errors="replace") gives one code point per
\* well-formed sequence and U+FFFD per maximal ill-formed part
REPLACEMENT == 65533

IsCont(b, i) == i <= Len(b) /\ b[i] \in 128..191

\* the range of the byte after the lead byte c of a 3- or 4-byte sequence
Second(c) ==
    IF c = 224 THEN 160..191
    ELSE IF c = 237 THEN 128..159
    ELSE IF c = 240 THEN 144..191
    ELSE IF c = 244 THEN 128..143
    ELSE 128..191

RECURSIVE DecodeFrom(_, _)
DecodeFrom(b, i) ==
    IF i > Len(b) THEN <<>>
    ELSE LET c == b[i]
             ok2 == i + 1 <= Len(b) /\ b[i + 1] \in Second(c)
         IN
         IF c < 128 THEN <<c>> \o DecodeFrom(b, i + 1)
         ELSE IF c \in 194..223
         THEN IF IsCont(b, i + 1)
              THEN <<(c - 192) * 64 + (b[i + 1] - 128)>> \o DecodeFrom(b, i + 2)
              ELSE <<REPLACEMENT>> \o DecodeFrom(b, i + 1)
         ELSE IF c \in 224..239
         THEN IF ~ok2 THEN <<REPLACEMENT>> \o DecodeFrom(b, i + 1)
              ELSE IF ~IsCont(b, i + 2) THEN <<REPLACEMENT>> \o DecodeFrom(b, i + 2)
              ELSE <<(c - 224) * 4096 + (b[i + 1] - 128) * 64 + (b[i + 2] - 128)>>
                      \o DecodeFrom(b, i + 3)
         ELSE IF c \in 240..244
         THEN IF ~ok2 THEN <<REPLACEMENT>> \o DecodeFrom(b, i + 1)
              ELSE IF ~IsCont(b, i + 2) THEN <<REPLACEMENT>> \o DecodeFrom(b, i + 2)
              ELSE IF ~IsCont(b, i + 3) THEN <<REPLACEMENT>> \o DecodeFrom(b, i + 3)
              ELSE <<(c - 240) * 262144 + (b[i + 1] - 128) * 4096
                       + (b[i + 2] - 128) * 64 + (b[i + 3] - 128)>>
                      \o DecodeFrom(b, i + 4)
         ELSE <<REPLACEMENT>> \o DecodeFrom(b, i + 1)

\* ASCII bytes decode to themselves
Decode(b) == IF \A i \in 1..Len(b) : b[i] < 128 THEN b ELSE DecodeFrom(b, 1)

ESC == 27
BEL == 7

\* lines 84-88: the three substitutions of _strip_ansi, each from left to
\* right over the text t, from position i on
\* OSC: ESC ] then anything but BEL, up to BEL or ESC \; the repetition is
\* greedy: it ends at the first BEL, or without one at the last ESC \
OscEnd(t, i) ==
    LET bels == {j \in (i + 2)..Len(t) : t[j] = BEL}
        sts == {j \in (i + 2)..(Len(t) - 1) : t[j] = ESC /\ t[j + 1] = BACKSLASH}
    IN  IF bels # {} THEN CHOOSE j \in bels : \A k \in bels : j <= k
        ELSE IF sts # {} THEN (CHOOSE j \in sts : \A k \in sts : j >= k) + 1
        ELSE 0

RECURSIVE StripOsc(_, _)
StripOsc(t, i) ==
    IF i > Len(t) THEN <<>>
    ELSE IF t[i] = ESC /\ i < Len(t) /\ t[i + 1] = 93 /\ OscEnd(t, i) > 0
    THEN StripOsc(t, OscEnd(t, i) + 1)
    ELSE <<t[i]>> \o StripOsc(t, i + 1)

\* the first position from j on that holds no character of the set S
RECURSIVE SkipSet(_, _, _)
SkipSet(t, j, S) == IF j <= Len(t) /\ t[j] \in S THEN SkipSet(t, j + 1, S) ELSE j

\* CSI: ESC [ then parameters 0-?, then intermediates space-/, then a final
\* character @-~
CsiEnd(t, i) ==
    LET j == SkipSet(t, SkipSet(t, i + 2, 48..63), 32..47)
    IN  IF j <= Len(t) /\ t[j] \in 64..126 THEN j ELSE 0

RECURSIVE StripCsi(_, _)
StripCsi(t, i) ==
    IF i > Len(t) THEN <<>>
    ELSE IF t[i] = ESC /\ i < Len(t) /\ t[i + 1] = 91 /\ CsiEnd(t, i) > 0
    THEN StripCsi(t, CsiEnd(t, i) + 1)
    ELSE <<t[i]>> \o StripCsi(t, i + 1)

\* ESC then one of @-Z, \, ], ^, _
RECURSIVE StripEsc(_, _)
StripEsc(t, i) ==
    IF i > Len(t) THEN <<>>
    ELSE IF t[i] = ESC /\ i < Len(t) /\ t[i + 1] \in (64..90) \cup (92..95)
    THEN StripEsc(t, i + 2)
    ELSE <<t[i]>> \o StripEsc(t, i + 1)

\* a text without ESC is left as it is
_strip_ansi(t) ==
    IF \A i \in 1..Len(t) : t[i] # ESC THEN t
    ELSE StripEsc(StripCsi(StripOsc(t, 1), 1), 1)

\* line 39: READY_REGEX, case-insensitive: the words below with any white
\* space, or none, between them (0 stands for \s*)
READY_WORDS ==
    <<101, 110, 116, 101, 114, 0, 64, 0, 116, 111, 0,
      109, 101, 110, 116, 105, 111, 110, 0, 102, 105, 108, 101, 115, 0,
      111, 114, 0, 47, 0, 102, 111, 114, 0,
      99, 111, 109, 109, 97, 110, 100, 115>>

\* what \s matches in a str pattern
WhiteSpace ==
    (9..13) \cup (28..32) \cup {133, 160, 5760} \cup (8192..8202)
      \cup {8232, 8233, 8239, 8287, 12288}

\* the characters that match the lower-case letter or the sign x when case
\* is ignored
SameIgnoringCase(c, x) ==
    \/ c = x
    \/ x \in 97..122 /\ c = x - 32
    \/ x = 105 /\ c \in {304, 305}
    \/ x = 115 /\ c = 383
    \/ x = 107 /\ c = 8490

RECURSIVE MatchAt(_, _, _)
MatchAt(buf, i, p) ==
    IF p > Len(READY_WORDS) THEN TRUE
    ELSE IF READY_WORDS[p] = 0
    THEN \/ MatchAt(buf, i, p + 1)
         \/ i <= Len(buf) /\ buf[i] \in WhiteSpace /\ MatchAt(buf, i + 1, p)
    ELSE /\ i <= Len(buf)
         /\ SameIgnoringCase(buf[i], READY_WORDS[p])
         /\ MatchAt(buf, i + 1, p + 1)

\* READY_REGEX.search(buf)
ReadySearch(buf) ==
    \E i \in 1..Len(buf) : SameIgnoringCase(buf[i], READY_WORDS[1]) /\ MatchAt(buf, i, 1)

\* lines 145-178: _readable has read a chunk of child output: what it does
\* with the last activity and the ready event; `match` is whether READY_REGEX
\* matches the scan buffer once the chunk is appended, n the number of chunks
ReaderControl(match, n) ==
    /\ AllAwait /\ readerOn
    /\ idle' = 0
    /\ outputs' = n
    /\ IF ~ready /\ match
       THEN ready' = TRUE /\ readySets' = readySets + 1 /\ readyBy' = "match"
       ELSE UNCHANGED <<ready, readySets, readyBy>>
    /\ readyTimers' = Pending(ready', readyTimers)
    /\ UNCHANGED <<cfgVars, consVars, sinceReader, readerOn, ptyIn, blocks, kbVars,
                   mainVars>>

\* the reader callback without the data of the chunk
ReaderCounted(match, n) == ReaderControl(match, n) /\ UNCHANGED ioVars

ReaderData(match) == ReaderCounted(match, outputs + 1)

\* line 119: _scanner_limit; line 147: the size of one os.read
SCANNER_LIMIT == 16384
READ_SIZE == 4096

\* chunks of child output, as os.read returns them: the prompt that
\* READY_REGEX looks for; a short chunk with a CSI sequence, an OSC sequence,
\* a two-byte character, an escape, a line end and the first two bytes of a
\* three-byte character; a full chunk of letters
PromptChunk ==
    <<69, 110, 116, 101, 114, 32, 64, 32, 116, 111, 32, 109, 101, 110, 116,
    105, 111, 110, 32, 102, 105, 108, 101, 115, 32, 111, 114, 32, 47, 32, 102,
    111, 114, 32, 99, 111, 109, 109, 97, 110, 100, 115>>
MixChunk ==
    <<27, 91, 50, 74, 27, 93, 48, 59, 116, 105, 116, 108, 101, 7, 99, 97, 102,
    195, 169, 27, 77, 13, 10, 226, 130>>
BigChunk == [i \in 1..READ_SIZE |-> 97 + (i % 23)]

ChunkData(id) ==
    IF id = "prompt" THEN PromptChunk
    ELSE IF id = "mix" THEN MixChunk
    ELSE BigChunk

\* a variant of lines 172-173 that keeps the oldest characters
Truncate_Head(buf) ==
    IF Len(buf) > SCANNER_LIMIT THEN SubSeq(buf, 1, SCANNER_LIMIT) ELSE buf

\* lines 172-173: buf[-limit:] when the buffer is longer than the limit
Truncate(buf) ==
    IF Len(buf) > SCANNER_LIMIT
    THEN SubSeq(buf, Len(buf) - SCANNER_LIMIT + 1, Len(buf))
    ELSE buf

\* lines 166-173: the scan buffer once the chunk is decoded, stripped and
\* appended, and the buffer truncated
Scanned(buf, data) == Truncate(buf \o _strip_ansi(Decode(data)))

\* lines 145-178: _readable reads the chunk `id`, writes it to the local
\* output (`mirrored` is whether that write succeeds; its failure is
\* swallowed), stamps the last activity, scans the chunk and tests the buffer
ReaderChunk(id, mirrored) ==
    /\ localOut' = IF mirrored
                   THEN Append(localOut, [src |-> "child", data |-> ChunkData(id)])
                   ELSE localOut
    /\ scanBuf' = Scanned(scanBuf, ChunkData(id))
    /\ reads' = Append(reads, id)
    /\ ReaderControl(ReadySearch(scanBuf'), outputs + 1)

ChildOutput == Budget /\ \E match \in BOOLEAN : ReaderData(match)

\* a variant of lines 150-155 that counts the failed read as activity
ReaderError_Stamps ==
    /\ Running /\ readerOn
    /\ readerOn' = FALSE
    /\ idle' = 0
    /\ UNCHANGED <<cfgVars, ioVars, consVars, readyVars, outputs, ptyIn, blocks, kbVars, mainVars>>

\* lines 150-155: os.read raises an OSError, or returns no data: _readable
\* removes itself and returns
ReaderError ==
    /\ Running /\ readerOn
    /\ readerOn' = FALSE
    /\ UNCHANGED <<cfgVars, ioVars, consVars, readyVars, idle, outputs, ptyIn, blocks, kbVars, mainVars>>

\* lines 150-155: the read fails or returns no data once the child has exited
ReaderEOF == child = "exited" /\ ReaderError

\* lines 146-149: os.read raises BlockingIOError (the loop woke the callback
\* and there is nothing to read): _readable returns
ReaderWouldBlock ==
    /\ AllAwait /\ readerOn /\ Budget
    /\ blocks' = blocks + 1
    /\ UNCHANGED <<cfgVars, ioVars, consVars, readyVars, readerOn, idle, outputs, ptyIn, kbVars,
                   mainVars>>

\* a variant of _ready_timeout that wakes up and does not set the event
ReadyTimeout_NoSet ==
    /\ Running /\ 0 \in readyTimers
    /\ readyTimers' = readyTimers \ {0}
    /\ UNCHANGED <<cfgVars, ioVars, consVars, ready, readySets, readyBy, sinceReader, readerOn,
                   idle, outputs, ptyIn, blocks, kbVars, mainVars>>

\* lines 195-200: a _ready_timeout task wakes up
ReadyTimeout ==
    /\ Running /\ 0 \in readyTimers
    /\ readyTimers' = Pending(TRUE, readyTimers \ {0})
    /\ IF ~ready
       THEN ready' = TRUE /\ readySets' = readySets + 1 /\ readyBy' = "timeout"
       ELSE UNCHANGED <<ready, readySets, readyBy>>
    /\ UNCHANGED <<cfgVars, ioVars, consVars, sinceReader, readerOn, idle, outputs, ptyIn, blocks,
                   kbVars, mainVars>>

\* ---------------------------------------------------- the keyboard proxy
\* lines 255-265: start() has been called
Started ==
    /\ kbAdded = TRUE /\ kbRestore = TRUE /\ term = "cbreak"
    /\ restores = 0 /\ restoreOk = "none" /\ kbStops = 0

\* lines 255-265: start() registers the callback and enters cbreak mode
KbStart ==
    IF LOCAL_KEYBOARD_FORWARD
    THEN /\ kbOn' = TRUE /\ kbAdded' = TRUE /\ kbRestore' = TRUE
         /\ term' = "cbreak"
         /\ UNCHANGED <<restores, restoreOk, kbStops>>
    ELSE UNCHANGED kbCtl

\* a variant of stop() that keeps _restore after it has run
KbStop_KeepRestore(ok) ==
    /\ kbStops' = kbStops + 1
    /\ kbOn' = (IF kbAdded THEN FALSE ELSE kbOn)
    /\ IF kbRestore
       THEN /\ restores' = restores + 1
            /\ restoreOk' = (IF ok THEN "ok" ELSE "failed")
            /\ term' = (IF ok THEN "orig" ELSE term)
       ELSE UNCHANGED <<restores, restoreOk, term>>
    /\ UNCHANGED <<kbAdded, kbRestore>>

\* lines 267-278 and 103-107: stop() removes the callback when start() had
\* added it, and runs restore() when there is one; `ok` is whether tcsetattr
\* succeeds in restore(), which swallows its failure
KbStop(ok) ==
    /\ kbStops' = kbStops + 1
    /\ kbOn' = (IF kbAdded THEN FALSE ELSE kbOn)
    /\ IF kbRestore
       THEN /\ restores' = restores + 1
            /\ restoreOk' = (IF ok THEN "ok" ELSE "failed")
            /\ term' = (IF ok THEN "orig" ELSE term)
            /\ kbRestore' = FALSE
       ELSE UNCHANGED <<restores, restoreOk, term, kbRestore>>
    /\ UNCHANGED kbAdded

\* a variant of the keyboard proxy that forwards only while the consumer
\* awaits frames
KbRead_WhenStreaming ==
    /\ AllAwait /\ kbOn /\ Budget /\ cpc = "recv"
    /\ \E data \in KeyData :
          kbTasks' = Append(kbTasks, [data |-> data, total |-> 0, sleep |-> NoTimer,
                                      id |-> kbReads + 1])
    /\ kbReads' = kbReads + 1
    /\ UNCHANGED <<cfgVars, ioVars, consVars, ptyVars, kbCtl, mainVars>>

\* lines 280-291: _on_stdin_ready reads local input and creates a task
KbRead ==
    /\ AllAwait /\ kbOn /\ Budget
    /\ \E data \in KeyData :
          kbTasks' = Append(kbTasks, [data |-> data, total |-> 0, sleep |-> NoTimer,
                                      id |-> kbReads + 1])
    /\ kbReads' = kbReads + 1
    /\ UNCHANGED <<cfgVars, ioVars, consVars, ptyVars, kbCtl, mainVars>>

RemoveAt(s, i) == SubSeq(s, 1, i - 1) \o SubSeq(s, i + 1, Len(s))

\* a variant of write_bytes that starts again from the first byte after a
\* would-block
KbWrite_Resend(i) ==
    /\ Running /\ kbTasks[i].sleep = NoTimer
    /\ LET t == kbTasks[i] IN
       \E k \in WriteSteps(t.data, t.total) :
          /\ ptyIn' = ptyIn \o Accepted(t.data, t.total, k, Tag("kb", t.id, "-"))
          /\ IF t.total + k = Len(t.data)
             THEN kbTasks' = RemoveAt(kbTasks, i) /\ UNCHANGED blocks
             ELSE /\ kbTasks' = [kbTasks EXCEPT ![i].total = 0,
                                                ![i].sleep = WRITE_RETRY_MS]
                  /\ blocks' = blocks + 1
    /\ UNCHANGED <<cfgVars, ioVars, consVars, readyVars, readerOn, idle, outputs, kbCtl, kbReads,
                   mainVars>>

\* a variant of write_bytes that returns at the first would-block
KbWrite_GiveUp(i) ==
    /\ Running /\ kbTasks[i].sleep = NoTimer
    /\ LET t == kbTasks[i] IN
       \E k \in WriteSteps(t.data, t.total) :
          /\ ptyIn' = ptyIn \o Accepted(t.data, t.total, k, Tag("kb", t.id, "-"))
          /\ kbTasks' = RemoveAt(kbTasks, i)
          /\ blocks' = IF t.total + k = Len(t.data) THEN blocks ELSE blocks + 1
    /\ UNCHANGED <<cfgVars, ioVars, consVars, readyVars, readerOn, idle, outputs, kbCtl, kbReads,
                   mainVars>>

\* lines 225-235: a keyboard task runs write_bytes
KbWrite(i) ==
    /\ Running /\ kbTasks[i].sleep = NoTimer
    /\ LET t == kbTasks[i] IN
       \E k \in WriteSteps(t.data, t.total) :
          /\ ptyIn' = ptyIn \o Accepted(t.data, t.total, k, Tag("kb", t.id, "-"))
          /\ IF t.total + k = Len(t.data)
             THEN kbTasks' = RemoveAt(kbTasks, i) /\ UNCHANGED blocks
             ELSE /\ kbTasks' = [kbTasks EXCEPT ![i].total = t.total + k,
                                                ![i].sleep = WRITE_RETRY_MS]
                  /\ blocks' = blocks + 1
    /\ UNCHANGED <<cfgVars, ioVars, consVars, readyVars, readerOn, idle, outputs, kbCtl, kbReads,
                   mainVars>>

KbSleepDone(i) ==
    /\ Running /\ kbTasks[i].sleep = 0
    /\ kbTasks' = [kbTasks EXCEPT ![i].sleep = NoTimer]
    /\ UNCHANGED <<cfgVars, ioVars, consVars, ptyVars, kbCtl, kbReads, mainVars>>

KbTask == \E i \in 1..Len(kbTasks) : KbWrite(i) \/ KbSleepDone(i)

\* --------------------------------------------------------------- main
\* the status of a child that exits by itself
ExitCodes == {0, 3}

\* what proc.returncode becomes: the child's exit status, or minus the number
\* of the signal that ended it (SIGTERM is 15, SIGKILL is 9)
ChildCodes ==
    ExitCodes \cup (IF termSent THEN {-15} ELSE {}) \cup (IF killSent THEN {-9} ELSE {})

\* the child exits by itself, or because of a signal it was sent
ChildExit ==
    /\ AllAwait /\ child = "alive" /\ (Budget \/ termSent)
    /\ child' = "exited"
    /\ returncode' \in ChildCodes
    /\ UNCHANGED <<cfgVars, ioVars, consVars, ptyVars, kbVars, stopSet, mpc, grace, termSent, killSent,
                   exitCode>>

\* lines 401-402: SIGINT or SIGTERM reaches the host
StopSignal ==
    /\ AllAwait /\ ~stopSet /\ Budget
    /\ mpc \notin {"boot", "spawning"}
    /\ stopSet' = TRUE
    /\ UNCHANGED <<cfgVars, ioVars, consVars, ptyVars, kbVars, child, mpc, grace, termSent, killSent, codeVars>>

\* lines 379-383 and 436-440: SystemExit with a message, or an exception that
\* leaves main, ends the host with status 1
Abort ==
    /\ mpc' = "exited"
    /\ exitCode' = 1

\* a variant of main that does not open /dev/tty
MainBoot_NoTty ==
    /\ mpc = "boot"
    /\ \E pt \in BOOLEAN :
          IF pt
          THEN /\ fds' = {"master", "slave"}
               /\ mpc' = "spawning"
               /\ UNCHANGED exitCode
          ELSE /\ Abort
               /\ UNCHANGED fds
    /\ UNCHANGED <<exitOnError, reconnect, ioVars, consVars, ptyVars, kbVars, child, stopSet, grace,
                   termSent, killSent, returncode>>

\* lines 379-392 and 125-127: main opens /dev/tty, which fails when there is
\* no controlling terminal, then spawn() opens the PTY and awaits the
\* creation of the child; `pt` is whether pty.openpty succeeds
MainBoot ==
    /\ mpc = "boot"
    /\ \E pt \in BOOLEAN :
          IF term # "none" /\ pt
          THEN /\ fds' = {"master", "slave"}
               /\ mpc' = "spawning"
               /\ UNCHANGED exitCode
          ELSE /\ Abort
               /\ UNCHANGED fds
    /\ UNCHANGED <<exitOnError, reconnect, ioVars, consVars, ptyVars, kbVars, child, stopSet, grace,
                   termSent, killSent, returncode>>

\* lines 128-138 and 393-409: create_subprocess_exec returns the child, or
\* raises; with the child, main starts the keyboard proxy, creates the
\* consumer task and awaits the child or a stop signal
MainSpawned ==
    /\ mpc = "spawning" /\ AllAwait
    /\ \E ok \in BOOLEAN :
          IF ok
          THEN /\ child' = "alive"
               /\ idle' = 0
               /\ KbStart
               /\ cpc' = "loop"
               /\ mpc' = "waiting"
               /\ UNCHANGED exitCode
          ELSE /\ Abort
               /\ UNCHANGED <<child, idle, kbCtl, cpc>>
    /\ UNCHANGED <<cfgVars, ioVars, cw, inj, cSleep, connVars, quietVars, recvLog, stages, cycleLog,
                   readyVars, readerOn, outputs, ptyIn, blocks, kbTasks, kbReads, stopSet,
                   grace, termSent, killSent, returncode>>

\* lines 409-415: asyncio.wait returns when the child has exited or stop is set
MainWake ==
    /\ mpc = "waiting" /\ (child = "exited" \/ stopSet)
    /\ mpc' = "finally"
    /\ UNCHANGED <<cfgVars, ioVars, consVars, ptyVars, kbVars, child, stopSet, grace, termSent, killSent, codeVars>>

\* lines 417-421: the consumer task is cancelled and awaited
MainCancel ==
    /\ mpc = "finally"
    /\ mpc' = "kb_stop"
    /\ IF ConsumerDone
       THEN UNCHANGED <<cpc, cw, inj, cSleep>>
       ELSE cpc' = "cancelled" /\ cw' = NoWrite /\ inj' = NoInj /\ cSleep' = NoTimer
    /\ LeaveWaitQuiet
    /\ UNCHANGED <<cfgVars, ioVars, connVars, recvLog, stages, cycleLog, ptyVars, kbVars,
                   child, stopSet, grace, termSent, killSent, codeVars>>

\* line 423, lines 267-278: kb.stop()
MainKbStop ==
    /\ mpc = "kb_stop"
    /\ \E ok \in BOOLEAN : KbStop(ok)
    /\ mpc' = "terminate"
    /\ UNCHANGED <<cfgVars, ioVars, consVars, ptyVars, kbTasks, kbReads, child, stopSet, grace,
                   termSent, killSent, codeVars>>

\* lines 425-428: terminate the child if it is still alive
MainTerminate ==
    /\ mpc = "terminate"
    /\ IF child = "alive"
       THEN termSent' = TRUE /\ grace' = TERMINATE_GRACE_MS /\ mpc' = "grace"
       ELSE mpc' = "exit" /\ UNCHANGED <<termSent, grace>>
    /\ UNCHANGED <<cfgVars, ioVars, consVars, ptyVars, kbVars, child, stopSet, killSent, codeVars>>

\* line 428: the child exits within the grace period
MainGraceExit ==
    /\ mpc = "grace" /\ child = "exited"
    /\ grace' = NoTimer
    /\ mpc' = "exit"
    /\ UNCHANGED <<cfgVars, ioVars, consVars, ptyVars, kbVars, child, stopSet, termSent, killSent, codeVars>>

\* a variant of lines 428-430 that does not wait for the grace period
MainGraceTimeout_NoWait ==
    /\ mpc = "grace" /\ child = "alive"
    /\ grace' = NoTimer
    /\ killSent' = TRUE
    /\ mpc' = "killed"
    /\ UNCHANGED <<cfgVars, ioVars, consVars, ptyVars, kbVars, child, stopSet, termSent, codeVars>>

\* lines 429-430: the grace period is over: kill
MainGraceTimeout ==
    /\ mpc = "grace" /\ grace = 0 /\ child = "alive"
    /\ grace' = NoTimer
    /\ killSent' = TRUE
    /\ mpc' = "killed"
    /\ UNCHANGED <<cfgVars, ioVars, consVars, ptyVars, kbVars, child, stopSet, termSent, codeVars>>

\* line 431: await proc.wait() after the kill
MainKilledExit ==
    /\ mpc = "killed" /\ child = "exited"
    /\ mpc' = "exit"
    /\ UNCHANGED <<cfgVars, ioVars, consVars, ptyVars, kbVars, child, stopSet, grace, termSent, killSent, codeVars>>

\* a variant of line 433 that returns 0 whatever the child returned
ExitStatus_Zero(rc) == 0

\* line 433 and line 440: int(proc.returncode or 0), and the status the
\* system keeps of sys.exit(code): its low 8 bits
ExitStatus(rc) == (IF rc = NoCode THEN 0 ELSE rc) % 256

\* line 433, lines 436-440: main returns; asyncio.run cancels what is left
MainExit ==
    /\ mpc = "exit"
    /\ mpc' = "exited"
    /\ exitCode' = ExitStatus(returncode)
    /\ kbTasks' = <<>>
    /\ readyTimers' = {}
    /\ UNCHANGED <<cfgVars, ioVars, consVars, ready, readySets, readyBy, sinceReader, readerOn,
                   idle, outputs, ptyIn, blocks, kbCtl, kbReads, child, stopSet, grace,
                   termSent, killSent, returncode>>

\* --------------------------------------------------------------- time
Armed == ({cSleep, grace} \cup readyTimers \cup KbSleeps) \ {NoTimer}
MinOf(S) == CHOOSE x \in S : \A y \in S : x <= y

\* the event loop has nothing to run: time can pass
LoopIdle == AllAwait /\ 0 \notin Armed

Dec(t, d) == IF t = NoTimer THEN NoTimer ELSE t - d

Advance(d) ==
    /\ cSleep' = Dec(cSleep, d)
    /\ grace' = Dec(grace, d)
    /\ readyTimers' = {t - d : t \in readyTimers}
    /\ kbTasks' = [i \in 1..Len(kbTasks) |-> [kbTasks[i] EXCEPT !.sleep = Dec(@, d)]]
    /\ idle' = Min(idle + d, IdleCap)
    /\ qDeadline' = IF cpc = "wait_quiet" THEN qDeadline - d ELSE qDeadline
    /\ sinceReader' = IF sinceReader # NoTimer /\ ~ready THEN sinceReader + d
                      ELSE sinceReader
    /\ UNCHANGED <<cfgVars, ioVars, cpc, cw, inj, connVars, qQuiet, qTimeout, qIdle0, qOut0,
                   recvLog, stages, cycleLog, ready, readySets, readyBy, readerOn,
                   outputs, ptyIn, blocks, kbCtl, kbReads, child, stopSet, mpc, termSent,
                   killSent, codeVars>>

\* time passes until the next timer is due
Tick == LoopIdle /\ Armed # {} /\ Advance(MinOf(Armed))

\* no timer is pending: time passes, as long as it takes for idle to saturate
TickIdle == LoopIdle /\ Armed = {} /\ idle < IdleCap /\ Advance(IdleCap - idle)

\* ------------------------------------------------------ specification
\* the state once main has spawned the child, started the keyboard proxy and
\* created the consumer task (lines 389-407), with the two toggles as given
InitWith(e, r) ==
    /\ exitOnError = e
    /\ reconnect = r
    /\ fds = {"master", "slave"}
    /\ cpc = "loop" /\ cw = NoWrite /\ inj = NoInj /\ cSleep = NoTimer
    /\ backoff = BACKOFF_START /\ attempts = 0 /\ conns = 0 /\ fails = 0
    /\ qQuiet = 0 /\ qTimeout = 0 /\ qDeadline = 0 /\ qIdle0 = 0 /\ qOut0 = 0
    /\ recvLog = <<>> /\ stages = <<>> /\ cycleLog = <<>>
    /\ ready = FALSE /\ readySets = 0 /\ readyBy = "none" /\ sinceReader = NoTimer
    /\ readyTimers = {}
    /\ readerOn = FALSE /\ idle = 0 /\ outputs = 0
    /\ ptyIn = <<>> /\ blocks = 0
    /\ kbOn = TRUE /\ kbTasks = <<>> /\ kbReads = 0
        /\ Started
    /\ child = "alive" /\ stopSet = FALSE /\ mpc = "waiting"
    /\ grace = NoTimer /\ termSent = FALSE /\ killSent = FALSE
    /\ returncode = NoCode /\ exitCode = NoCode
    /\ NoData

\* the state when main is called (line 378), with a controlling terminal or
\* without one
InitBoot ==
    /\ exitOnError = EXIT_ON_ERROR /\ reconnect = RECONNECT
    /\ fds = {}
    /\ cpc = "none" /\ cw = NoWrite /\ inj = NoInj /\ cSleep = NoTimer
    /\ backoff = BACKOFF_START /\ attempts = 0 /\ conns = 0 /\ fails = 0
    /\ qQuiet = 0 /\ qTimeout = 0 /\ qDeadline = 0 /\ qIdle0 = 0 /\ qOut0 = 0
    /\ recvLog = <<>> /\ stages = <<>> /\ cycleLog = <<>>
    /\ ready = FALSE /\ readySets = 0 /\ readyBy = "none" /\ sinceReader = NoTimer
    /\ readyTimers = {}
    /\ readerOn = FALSE /\ idle = 0 /\ outputs = 0
    /\ ptyIn = <<>> /\ blocks = 0
    /\ kbOn = FALSE /\ kbTasks = <<>> /\ kbReads = 0
    /\ kbAdded = FALSE /\ kbRestore = FALSE /\ term \in {"orig", "none"}
    /\ restores = 0 /\ restoreOk = "none" /\ kbStops = 0
    /\ child = "none" /\ stopSet = FALSE /\ mpc = "boot"
    /\ grace = NoTimer /\ termSent = FALSE /\ killSent = FALSE
    /\ returncode = NoCode /\ exitCode = NoCode
    /\ NoData

\* the toggles as the source sets them (lines 63-64)
Init == InitWith(EXIT_ON_ERROR, RECONNECT)

\* any setting of the toggles
InitCfg == \E e \in BOOLEAN, r \in BOOLEAN : InitWith(e, r)

\* the steps the consumer task takes when the event loop runs it
Consumer ==
    \/ LoopTop \/ StartReader \/ WakeKeys \/ WaitReady \/ WaitQuietPoll \/ Preprompt
    \/ InjText \/ InjDelay \/ InjSubmit \/ ConsumerWrite \/ ConsumerSleepDone

\* the steps of the consumer that the feed resumes
Feed == ConnectOk \/ ConnectFail \/ Recv \/ RecvClosed \/ RecvError

Main ==
    \/ MainWake \/ MainCancel \/ MainKbStop \/ MainTerminate \/ MainGraceExit
    \/ MainGraceTimeout \/ MainKilledExit \/ MainExit

Callbacks == ReadyTimeout \/ KbTask

Environment == Feed \/ ChildOutput \/ ReaderEOF \/ KbRead \/ ChildExit \/ StopSignal

Time == Tick \/ TickIdle

Next == Consumer \/ Main \/ Callbacks \/ Environment \/ Time

Spec == Init /\ [][Next]_vars

\* the host from the call of main
NextBoot == MainBoot \/ MainSpawned \/ Next

SpecBoot == InitBoot /\ [][NextBoot]_vars

\* the keyboard proxy on its own: a caller starts it at most once and stops
\* it any number of times, in any order, while local input arrives
MaxStops == 3

InitKb ==
    /\ exitOnError = EXIT_ON_ERROR /\ reconnect = RECONNECT
    /\ fds = {"master", "slave"}
    /\ cpc = "none" /\ cw = NoWrite /\ inj = NoInj /\ cSleep = NoTimer
    /\ backoff = BACKOFF_START /\ attempts = 0 /\ conns = 0 /\ fails = 0
    /\ qQuiet = 0 /\ qTimeout = 0 /\ qDeadline = 0 /\ qIdle0 = 0 /\ qOut0 = 0
    /\ recvLog = <<>> /\ stages = <<>> /\ cycleLog = <<>>
    /\ ready = FALSE /\ readySets = 0 /\ readyBy = "none" /\ sinceReader = NoTimer
    /\ readyTimers = {}
    /\ readerOn = FALSE /\ idle = 0 /\ outputs = 0
    /\ ptyIn = <<>> /\ blocks = 0
    /\ kbOn = FALSE /\ kbTasks = <<>> /\ kbReads = 0
    /\ kbAdded = FALSE /\ kbRestore = FALSE /\ term = "orig"
    /\ restores = 0 /\ restoreOk = "none" /\ kbStops = 0
    /\ child = "alive" /\ stopSet = FALSE /\ mpc = "waiting"
    /\ grace = NoTimer /\ termSent = FALSE /\ killSent = FALSE
    /\ returncode = NoCode /\ exitCode = NoCode
    /\ NoData

KbStartCall ==
    /\ Running /\ ~kbAdded
    /\ KbStart
    /\ UNCHANGED <<cfgVars, ioVars, consVars, ptyVars, kbTasks, kbReads, mainVars>>

KbStopCall ==
    /\ Running /\ kbStops < MaxStops
    /\ \E ok \in BOOLEAN : KbStop(ok)
    /\ UNCHANGED <<cfgVars, ioVars, consVars, ptyVars, kbTasks, kbReads, mainVars>>

NextKb == KbStartCall \/ KbStopCall \/ KbRead \/ KbTask \/ Tick

SpecKb == InitKb /\ [][NextKb]_vars

\* the reader callback on its own: on the first connection the write of the
\* wake keys has failed and the consumer has ended (EXIT_ON_ERROR); the
\* reader stays registered, the ready timeout is pending
MaxChunks == 5

InitReader ==
    /\ exitOnError = EXIT_ON_ERROR /\ reconnect = RECONNECT
    /\ fds = {"master", "slave"}
    /\ cpc = "done_error" /\ cw = NoWrite /\ inj = NoInj /\ cSleep = NoTimer
    /\ backoff = BACKOFF_START /\ attempts = 1 /\ conns = 1 /\ fails = 1
    /\ qQuiet = 0 /\ qTimeout = 0 /\ qDeadline = 0 /\ qIdle0 = 0 /\ qOut0 = 0
    /\ recvLog = <<>> /\ stages = <<"hello", "reader", "wake">> /\ cycleLog = <<>>
    /\ ready = FALSE /\ readySets = 0 /\ readyBy = "none" /\ sinceReader = 0
    /\ readyTimers = {READY_TIMEOUT_MS}
    /\ readerOn = TRUE /\ idle = 0 /\ outputs = 0
    /\ ptyIn = <<>> /\ blocks = 0
    /\ kbOn = TRUE /\ kbTasks = <<>> /\ kbReads = 0
    /\ Started
    /\ child = "alive" /\ stopSet = FALSE /\ mpc = "waiting"
    /\ grace = NoTimer /\ termSent = FALSE /\ killSent = FALSE
    /\ returncode = NoCode /\ exitCode = NoCode
    /\ NoData

\* the child writes while the local output accepts everything
ReaderOutput ==
    /\ outputs < MaxChunks
    /\ \E id \in {"prompt", "mix", "big"} : ReaderChunk(id, TRUE)

NextReader == ReaderOutput \/ ReadyTimeout \/ Tick \/ TickIdle

SpecReader == InitReader /\ [][NextReader]_vars

\* the child writes short chunks; a write to the local output may fail
MirrorOutput ==
    /\ outputs < MaxChunks
    /\ \E id \in {"prompt", "mix"}, mirrored \in BOOLEAN : ReaderChunk(id, mirrored)

NextMirror == MirrorOutput \/ ReadyTimeout \/ Tick \/ TickIdle

SpecMirror == InitReader /\ [][NextMirror]_vars

\* the reader callback when a read can fail or find nothing, with short
\* chunks of output; the event loop keeps running its timers
NextHangup == NextMirror \/ ReaderError \/ ReaderWouldBlock

SpecHangup ==
    InitReader /\ [][NextHangup]_vars /\ WF_vars(ReadyTimeout \/ Tick \/ TickIdle)

\* wait_quiet(q, t) on its own: the consumer has just called it, a ms after
\* the child's last output (or after the spawn, when there was none); the
\* child goes on writing, or not
QuietMs == {0, 100, 800}
TimeoutMs == {0, 120, 1000}
IdleAtCall == {0, 100, 800}

InitQuiet ==
    \E q \in QuietMs, t \in TimeoutMs, a \in IdleAtCall :
        /\ exitOnError = EXIT_ON_ERROR /\ reconnect = RECONNECT
        /\ fds = {"master", "slave"}
        /\ cpc = "wait_quiet" /\ cw = NoWrite /\ inj = NoInj /\ cSleep = NoTimer
        /\ backoff = BACKOFF_START /\ attempts = 1 /\ conns = 1 /\ fails = 0
        /\ qQuiet = q /\ qTimeout = t /\ qDeadline = t /\ qIdle0 = a
        /\ outputs = (IF a < IdleCap THEN 1 ELSE 0) /\ qOut0 = outputs
        /\ recvLog = <<>> /\ stages = <<"hello", "reader", "wake", "ready">>
        /\ cycleLog = <<>>
        /\ ready = TRUE /\ readySets = 1 /\ readyBy = "timeout"
        /\ sinceReader = READY_TIMEOUT_MS /\ readyTimers = {}
        /\ readerOn = TRUE /\ idle = a
        /\ ptyIn = Accepted(Encode(_decode_escapes(WAKE_KEYS)), 0, 1, Tag("wake", 1, "-"))
        /\ blocks = 0
        /\ kbOn = TRUE /\ kbTasks = <<>> /\ kbReads = 0
        /\ Started
        /\ child = "alive" /\ stopSet = FALSE /\ mpc = "waiting"
        /\ grace = NoTimer /\ termSent = FALSE /\ killSent = FALSE
    /\ returncode = NoCode /\ exitCode = NoCode
    /\ NoData

NextQuiet == WaitQuietPoll \/ ConsumerSleepDone \/ ChildOutput \/ Tick

SpecQuiet == InitQuiet /\ [][NextQuiet]_vars

\* with the toggles free the backoff sleep is reachable
NextCfg == Next \/ BackoffDone

SpecCfg == InitCfg /\ [][NextCfg]_vars

\* the host with no keyboard input, when os.write on the PTY master can fail
\* in the consumer
NextIO ==
    \/ Consumer \/ Main \/ ReadyTimeout \/ Time
    \/ Feed \/ ChildOutput \/ ReaderEOF \/ ChildExit \/ StopSignal
    \/ ConsumerWriteError

SpecIO == Init /\ [][NextIO]_vars

\* the consumer and the feed on their own, with any setting of the toggles:
\* the child stays alive and silent, no signal and no local input arrive
NextFeed ==
    \/ Consumer \/ Feed \/ ConsumerWriteError \/ BackoffDone
    \/ ReadyTimeout \/ Time

SpecFeed == InitCfg /\ [][NextFeed]_vars

\* the host with no keyboard input, when a frame can arrive together with the
\* child's exit
NextLate == NextIO \/ RecvLate

SpecLate == Init /\ [][NextLate]_vars

\* write_bytes on its own, one os.write at a time (lines 225-235): the
\* consumer has just received a raw frame on its first connection, after the
\* startup sequence, and calls write_bytes with the decoded payload.  The
\* payloads decode to 1 byte, to 3 bytes, and to more bytes than one chunk.
CHUNK == 4096

LongPayload == [i \in 1..(4 * ((CHUNK \div 3) + 1)) |-> 65 + (i % 26)]
WritePayloads == {<<81, 81, 61, 61>>, <<71, 49, 116, 66>>, LongPayload}

\* line 230: data[total : total + 4096]
Chunk(data, total) == SubSeq(data, total + 1, Min(total + CHUNK, Len(data)))

\* what os.write may accept of a chunk of n bytes: all of it, or a part
AcceptCounts(n) == {k \in {n \div 3, n \div 2, n - 1, n} : k >= 1}

\* a variant of line 234 that counts the whole chunk as written
WriteAccept_WholeChunk ==
    /\ Running /\ cpc = "write" /\ cSleep = NoTimer /\ cw.total < Len(cw.data)
    /\ LET chunk == Chunk(cw.data, cw.total)
       IN  \E n \in AcceptCounts(Len(chunk)) :
              /\ ptyIn' = ptyIn \o Accepted(chunk, 0, n, cw.tag)
              /\ cw' = [cw EXCEPT !.total = cw.total + Len(chunk)]
    /\ UNCHANGED <<cfgVars, ioVars, cpc, inj, cSleep, connVars, quietVars, recvLog, stages, cycleLog,
                   readyVars, readerOn, idle, outputs, blocks, kbVars, mainVars>>

\* lines 228-234: os.write accepts n > 0 bytes of the chunk; total += n
WriteAccept ==
    /\ Running /\ cpc = "write" /\ cSleep = NoTimer /\ cw.total < Len(cw.data)
    /\ LET chunk == Chunk(cw.data, cw.total)
       IN  \E n \in AcceptCounts(Len(chunk)) :
              /\ ptyIn' = ptyIn \o Accepted(chunk, 0, n, cw.tag)
              /\ cw' = [cw EXCEPT !.total = cw.total + n]
    /\ UNCHANGED <<cfgVars, ioVars, cpc, inj, cSleep, connVars, quietVars, recvLog, stages, cycleLog,
                   readyVars, readerOn, idle, outputs, blocks, kbVars, mainVars>>

\* a variant of lines 231-235 that gives up when the PTY would block
WriteWouldBlock_GiveUp ==
    /\ Running /\ cpc = "write" /\ cSleep = NoTimer /\ cw.total < Len(cw.data)
    /\ cpc' = cw.ret
    /\ cw' = NoWrite
    /\ UNCHANGED <<cfgVars, ioVars, inj, cSleep, connVars, quietVars, recvLog, stages, cycleLog,
                   ptyVars, kbVars, mainVars>>

\* lines 231-233 and 235: os.write returns 0, or raises BlockingIOError:
\* sleep(0.005), and total stays
WriteWouldBlock ==
    /\ Running /\ cpc = "write" /\ cSleep = NoTimer /\ cw.total < Len(cw.data)
    /\ cSleep' = WRITE_RETRY_MS
    /\ UNCHANGED <<cfgVars, ioVars, cpc, cw, inj, connVars, quietVars, recvLog, stages, cycleLog,
                   ptyVars, kbVars, mainVars>>

\* line 228: total = len(data): the loop is over, write_bytes returns
WriteReturn ==
    /\ Running /\ cpc = "write" /\ cSleep = NoTimer /\ cw.total >= Len(cw.data)
    /\ cpc' = cw.ret
    /\ cw' = NoWrite
    /\ UNCHANGED <<cfgVars, ioVars, inj, cSleep, connVars, quietVars, recvLog, stages, cycleLog,
                   ptyVars, kbVars, mainVars>>

\* the bytes the startup sequence has written: the wake key, the preprompt
\* and its submit sequence
StartupInput ==
    Accepted(Encode(_decode_escapes(WAKE_KEYS)), 0, 1, Tag("wake", 1, "-"))
      \o Accepted(Encode(DEFAULT_PREPROMPT), 0, Len(Encode(DEFAULT_PREPROMPT)),
                  Tag("pre", 1, "text"))
      \o Accepted(Encode(_decode_escapes(SUBMIT_SEQ)), 0, 1, Tag("pre", 1, "submit"))

InitWrite ==
    \E p \in WritePayloads :
        /\ exitOnError = EXIT_ON_ERROR /\ reconnect = RECONNECT
        /\ fds = {"master", "slave"}
        /\ cpc = "write" /\ inj = NoInj /\ cSleep = NoTimer
        /\ cw = [data |-> B64Decode(p), total |-> 0, tag |-> Tag("raw", 1, "-"),
                 ret |-> "recv"]
        /\ backoff = BACKOFF_START /\ attempts = 1 /\ conns = 1 /\ fails = 0
        /\ qQuiet = 0 /\ qTimeout = 0 /\ qDeadline = 0 /\ qIdle0 = 0 /\ qOut0 = 0
        /\ recvLog = <<RawFrame(p)>>
        /\ stages = <<"hello", "reader", "wake", "ready", "quiet", "preprompt">>
        /\ cycleLog = <<[src |-> "pre", text |-> DEFAULT_PREPROMPT]>>
        /\ ready = TRUE /\ readySets = 1 /\ readyBy = "timeout"
        /\ sinceReader = READY_TIMEOUT_MS /\ readyTimers = {}
        /\ readerOn = TRUE /\ idle = IdleCap /\ outputs = 0
        /\ ptyIn = StartupInput
        /\ blocks = 0
        /\ kbOn = TRUE /\ kbTasks = <<>> /\ kbReads = 0
        /\ Started
        /\ child = "alive" /\ stopSet = FALSE /\ mpc = "waiting"
        /\ grace = NoTimer /\ termSent = FALSE /\ killSent = FALSE
    /\ returncode = NoCode /\ exitCode = NoCode
    /\ NoData

NextWrite == WriteAccept \/ WriteWouldBlock \/ WriteReturn \/ ConsumerSleepDone \/ Tick

\* the PTY keeps eventually accepting input: an os.write that is tried again
\* and again accepts bytes at some point
SpecWrite ==
    InitWrite /\ [][NextWrite]_vars /\ WF_vars(NextWrite) /\ SF_vars(WriteAccept)

\* reconnection on, exit-on-error off, and a feed that refuses up to MaxFails
\* connections in a row
InitBackoff == InitWith(FALSE, TRUE)

ConnectRefused == fails < MaxFails /\ ConnectError

NextBackoff == NextCfg \/ ConnectRefused

SpecBackoff == InitBackoff /\ [][NextBackoff]_vars

\* the startup sequence on its own: the first connection has just been
\* established (lines 300-305); the child writes output whenever it likes
\* and as often as it likes, matching the readiness pattern or not (the chunks
\* are counted up to MaxOutputs), and nothing shuts the host down
InitStartup ==
    /\ exitOnError = EXIT_ON_ERROR /\ reconnect = RECONNECT
    /\ fds = {"master", "slave"}
    /\ cpc = "start_reader" /\ cw = NoWrite /\ inj = NoInj /\ cSleep = NoTimer
    /\ backoff = BACKOFF_START /\ attempts = 1 /\ conns = 1 /\ fails = 0
    /\ qQuiet = 0 /\ qTimeout = 0 /\ qDeadline = 0 /\ qIdle0 = 0 /\ qOut0 = 0
    /\ recvLog = <<>> /\ stages = <<"hello">> /\ cycleLog = <<>>
    /\ ready = FALSE /\ readySets = 0 /\ readyBy = "none" /\ sinceReader = NoTimer
    /\ readyTimers = {}
    /\ readerOn = FALSE /\ idle = 0 /\ outputs = 0
    /\ ptyIn = <<>> /\ blocks = 0
    /\ kbOn = TRUE /\ kbTasks = <<>> /\ kbReads = 0
        /\ Started
    /\ child = "alive" /\ stopSet = FALSE /\ mpc = "waiting"
    /\ grace = NoTimer /\ termSent = FALSE /\ killSent = FALSE
    /\ returncode = NoCode /\ exitCode = NoCode
    /\ NoData

StartupOutput == \E match \in BOOLEAN : ReaderCounted(match, Min(outputs + 1, MaxOutputs))

\* what the event loop does by itself: the consumer's steps, the timer task,
\* the passing of time
StartupSteps ==
    \/ StartReader \/ WakeKeys \/ WaitReady \/ WaitQuietPoll \/ Preprompt
    \/ InjText \/ InjDelay \/ InjSubmit \/ ConsumerWrite \/ ConsumerSleepDone
    \/ ReadyTimeout \/ Time

NextStartup == StartupSteps \/ StartupOutput

\* the event loop runs what can run
SpecStartup == InitStartup /\ [][NextStartup]_vars /\ WF_vars(StartupSteps)

\* ======================================================== properties
\* the positions in the PTY's input of the bytes of injection cycle c
CyclePos(c) ==
    {i \in 1..Len(ptyIn) : ptyIn[i].src \in {"pre", "chat"} /\ ptyIn[i].id = c}

IsCycleByte(e, c) == e.src \in {"pre", "chat"} /\ e.id = c

\* the bytes of injection cycle c the PTY has accepted, in order
CycleBytes(c) == Bytes(SelectSeq(ptyIn, LAMBDA e : IsCycleByte(e, c)))

\* C1: injection cycles are strictly serialized: for any two cycles, once a
\* byte of the later cycle is in the PTY's input, the whole text and the
\* submit sequence (CR) of the earlier cycle are there, all of them before
\* every byte of the later cycle.
C1_Serialized ==
    \A c, d \in 1..Len(cycleLog) :
        (c < d /\ CyclePos(d) # {}) =>
            /\ CycleBytes(c) = Encode(cycleLog[c].text) \o <<13>>
            /\ \A i \in CyclePos(c), j \in CyclePos(d) : i < j

\* keyboard bytes went in between the bytes of a cycle, and the next cycle
\* has started to write
C1_Witness ==
    \E c \in 1..Len(cycleLog), k \in 1..Len(ptyIn) :
        /\ CyclePos(c + 1) # {}
        /\ ptyIn[k].src = "kb"
        /\ \E i, j \in CyclePos(c) : i < k /\ k < j

\* the entries of the PTY's input after the wake keys and the preprompt of the
\* first connection
RECURSIVE AfterStartup(_)
AfterStartup(stream) ==
    IF stream # <<>> /\ Head(stream).src \in {"wake", "pre"}
    THEN AfterStartup(Tail(stream))
    ELSE stream

IsChatFrame(f) == f.form = "object" /\ f.type = "chat"

\* "lv:" + text + CR, as bytes, for a chat frame, and for a sequence of them
ChatLine(f) ==
    <<108, 118, 58>> \o Encode(IF f.text = NoText THEN <<>> ELSE f.text) \o <<13>>
ChatLines(fs) == Flatten([i \in 1..Len(fs) |-> ChatLine(fs[i])])

Quiescent == ~ENABLED (Consumer \/ Main \/ Callbacks \/ Time)

\* C3: the startup stages run at most once per process: at most one preprompt
\* cycle, wake keys on the first connection only, and on a later connection
\* (the ready signal is latched by then) no stage after the hello: the consumer
\* goes directly to the message loop.
C3_StartupOnce ==
    /\ Cardinality({c \in 1..Len(cycleLog) : cycleLog[c].src = "pre"}) <= 1
    /\ \A i \in 1..Len(ptyIn) : ptyIn[i].src = "wake" => ptyIn[i].id = 1
    /\ (conns >= 2 /\ ready) =>
          \A k \in 1..Len(stages) : stages[k] \notin {"wake", "ready", "quiet", "preprompt"}

\* C4: after a quit control frame is dispatched no later frame is dispatched,
\* and the host does not come to rest before the child was sent a termination
\* signal (or has exited by itself); a child still alive when the 5 s grace
\* period is over is killed.
C4_QuitTerminatesChild ==
    /\ (recvLog # <<>> /\ recvLog[Len(recvLog)] = QuitFrame) => cpc \in {"done_quit"}
    /\ (cpc = "done_quit" /\ Quiescent) => (termSent \/ child = "exited")
    /\ (termSent /\ child = "alive" /\ Quiescent) => killSent

\* C5: with exit-on-error, when the first connection attempt fails the ready
\* wait is never entered, and the host does not come to rest before it has
\* sent the child a termination signal (unless the child has exited by itself)
\* and has exited.
C5_ErrorExitsHost ==
    (exitOnError /\ attempts >= 1 /\ conns = 0) =>
        /\ cpc \in {"done_error", "cancelled"}
        /\ stages = <<>>
        /\ Quiescent => (mpc = "exited" /\ (termSent \/ child = "exited"))

\* C6: the ready signal is monotonic: no step resets it, it is latched at
\* most once (by a match or by the timer), and whenever the consumer stands
\* at wait_ready with the signal latched, wait_ready can return and does so
\* before any time passes.
C6_ReadyMonotonic ==
    [][/\ ready => ready'
       /\ readySets' <= 1
       /\ ready' <=> (readySets' = 1 /\ readyBy' \in {"match", "timeout"})
       /\ (cpc = "wait_ready" /\ ready /\ Running) => (ENABLED WaitReady /\ ~ENABLED Time)
      ]_vars

\* on a second connection wait_ready was called with the signal latched long
\* before, and has returned
C6_Witness ==
    /\ conns = 2 /\ ready /\ readySets = 1
    /\ stages = <<"hello", "reader", "wake", "ready">>

\* C7: when the pattern has not matched, the timer latches the ready signal
\* 30000 ms after start_reader: the signal is never unset later than that,
\* a latch by the timer is made at exactly 30000 ms, until then the host is
\* never at rest (a task can run, a timer is armed), and wait_ready returns
\* with no delay once the signal is latched.
C7_ReadyByTimeout ==
    /\ (sinceReader # NoTimer /\ ~ready /\ Running) =>
          /\ sinceReader <= 30000
          /\ readyTimers = {30000 - sinceReader}
          /\ ~Quiescent
    /\ readyBy = "timeout" => sinceReader = 30000
    /\ (cpc = "wait_ready" /\ ~ready) => sinceReader # NoTimer
    /\ (cpc = "wait_ready" /\ ready /\ Running) => ~ENABLED Time

\* the pattern never matched although the child wrote output, the timer has
\* latched the signal and wait_ready has returned
C7_Witness ==
    /\ readyBy = "timeout" /\ sinceReader = 30000 /\ outputs > 0
    /\ conns = 1 /\ cpc = "wait_quiet"

\* wait_quiet: the time since the call, the step that returns, the step that
\* goes to sleep for another poll interval
QuietElapsed == qTimeout - qDeadline
QuietReturns == cpc = "wait_quiet" /\ cpc' = "preprompt"
QuietSleeps == cpc = "wait_quiet" /\ cSleep = NoTimer /\ cSleep' = 50
Max(a, b) == IF a >= b THEN a ELSE b

\* what C8 says of every poll, and of the child that writes all the time
QuietPolls ==
    /\ QuietReturns => (idle >= qQuiet \/ QuietElapsed >= qTimeout)
    /\ QuietSleeps => (idle < qQuiet /\ QuietElapsed < qTimeout)
    /\ QuietReturns => QuietElapsed < qTimeout + 50
    /\ (QuietReturns /\ idle < qQuiet) => QuietElapsed >= qTimeout

\* C8 as stated: wait_quiet(q, t) returns at the first poll at which the child
\* has been quiet for q or t has elapsed, never before, hence within t (up to
\* one poll interval of 50 ms), at about t when the child keeps writing, and at
\* about min(q, t) when the child writes nothing after the call.
C8_AsStated ==
    [][/\ QuietPolls
       /\ (QuietReturns /\ outputs = qOut0) =>
             LET m == Min(qQuiet, qTimeout) IN m <= QuietElapsed /\ QuietElapsed < m + 50
      ]_vars

\* C8, amended: as stated, but when the child writes nothing after the call
\* wait_quiet returns at about min(max(q - a, 0), t), where a is the time
\* since the child's last output at the call.
C8_WaitQuiet ==
    [][/\ QuietPolls
       /\ (QuietReturns /\ outputs = qOut0) =>
             LET m == Min(Max(qQuiet - qIdle0, 0), qTimeout)
             IN  m <= QuietElapsed /\ QuietElapsed < m + 50
      ]_vars

\* wait_quiet(800, 1000) is about to return on its timeout: the child wrote
\* after the call and was never quiet for 800 ms
C8_Witness ==
    /\ cpc = "wait_quiet" /\ cSleep = NoTimer
    /\ qQuiet = 800 /\ qTimeout = 1000 /\ QuietElapsed = 1000
    /\ outputs > qOut0 /\ idle < qQuiet

\* the bytes of the wake keys of the first connection that the PTY has accepted
WakePos == {i \in 1..Len(ptyIn) : ptyIn[i].src = "wake" /\ ptyIn[i].id = 1}

\* the order of the stages of the first connection, as far as a state shows it
StartupOrder ==
    conns = 1 =>
        /\ IsPrefix(stages, <<"hello", "reader", "wake", "ready", "quiet", "preprompt">>)
        /\ Len(stages) >= 4 => ready
        /\ cpc = "wait_ready" => WakePos # {}
        /\ cpc = "wait_quiet" => (qQuiet = 800 /\ qTimeout = 15000 /\ Len(stages) = 4)
        /\ CyclePos(1) # {} =>
              /\ ready /\ Len(stages) = 6
              /\ cycleLog[1].src = "pre"
              /\ \A i \in WakePos, j \in CyclePos(1) : i < j
        /\ recvLog # <<>> => CycleBytes(1) = <<80, 112, 13>>

\* C9: on the first connection the consumer writes the wake keys, waits for
\* the ready signal, waits in wait_quiet(800, 15000), then injects the
\* preprompt: the stages come in that order, wait_ready returns only with the
\* signal latched, wait_quiet only when quiet or timed out, no preprompt byte
\* is written before both have returned and before the wake keys, and no
\* frame is dispatched before the preprompt's text and its CR are written.
C9_StartupOrder ==
    [][/\ StartupOrder'
       /\ (conns = 1 /\ cpc = "wait_quiet" /\ cpc' = "preprompt") =>
             (idle >= 800 \/ qTimeout - qDeadline >= 15000)
      ]_vars

\* the first frame is dispatched, after the whole startup sequence during
\* which the child kept writing
C9_Witness ==
    /\ conns = 1 /\ Len(recvLog) = 1 /\ outputs > 0
    /\ Bytes(SubSeq(ptyIn, 1, 4)) = <<13, 80, 112, 13>>

\* C10: a frame that json.loads rejects is handled, in every state, exactly
\* as a chat frame whose text is the raw frame: the same call of the
\* injection cycle, hence the same bytes, delays and consumer state.
C10_GarbageIsChat ==
    [][\A f \in Frames :
          (f.form = "garbage" /\ RecvFrame(f)) => RecvFrameAs(f, Parse(ChatFrame(f.raw)))
      ]_vars

\* "a", not JSON, was received and injected as "lv:a" and CR
C10_Witness ==
    /\ recvLog = <<Garbage(<<97>>)>> /\ cpc = "recv" /\ conns = 1
    /\ Bytes(AfterStartup(ptyIn)) = <<108, 118, 58, 97, 13>>

\* a frame that parses to an object and is none of chat, raw, control/quit
IsOtherFrame(f) ==
    /\ f.form = "object"
    /\ f.type \notin {"chat", "raw"}
    /\ ~(f.type = "control" /\ f.cmd = "quit")

\* "lv:" + the raw frame + CR, as bytes, for a sequence of frames
RECURSIVE RawLines(_)
RawLines(fs) ==
    IF fs = <<>> THEN <<>>
    ELSE <<108, 118, 58>> \o Encode(Head(fs).raw) \o <<13>> \o RawLines(Tail(fs))

\* C11: a frame that parses but is none of chat, raw, control/quit is treated
\* as a chat frame whose text is the raw frame: with no keyboard input, when
\* the frames received on the first connection are such frames, "lv:" + the raw
\* frame + CR is in the PTY's input for each of them, in order, once the
\* consumer awaits the next frame.
C11_OtherIsChat ==
    (kbReads = 0 /\ conns = 1 /\ cpc = "recv"
       /\ \A i \in 1..Len(recvLog) : IsOtherFrame(recvLog[i])) =>
        Bytes(AfterStartup(ptyIn)) = RawLines(recvLog)

\* the raw frame whose payload "G1tB" encodes 1B 5B 41
CursorUp == RawFrame(<<71, 49, 116, 66>>)

\* C12: a raw frame puts exactly its decoded bytes on the PTY: with no
\* keyboard input, when the frames received on the first connection are raw
\* frames encoding 1B 5B 41, the PTY's input after the startup sequence is
\* 1B 5B 41 once per frame and nothing else (no marker, no CR), no injection
\* cycle is run for them, and the consumer sleeps only to retry a write that
\* would block.
C12_RawExact ==
    (kbReads = 0 /\ conns = 1 /\ \A i \in 1..Len(recvLog) : recvLog[i] = CursorUp) =>
        LET want == Flatten([i \in 1..Len(recvLog) |-> <<27, 91, 65>>])
        IN  /\ IsPrefix(Bytes(AfterStartup(ptyIn)), want)
            /\ cpc = "recv" => Bytes(AfterStartup(ptyIn)) = want
            /\ Len(cycleLog) <= 1
            /\ (recvLog # <<>> /\ cSleep # NoTimer) => (cSleep <= 5 /\ blocks > 0)

\* one such frame was written in two parts, a would-block in between
C12_Witness ==
    /\ kbReads = 0 /\ conns = 1 /\ cpc = "recv" /\ blocks > 0
    /\ recvLog = <<CursorUp>>
    /\ Bytes(AfterStartup(ptyIn)) = <<27, 91, 65>>
    /\ \E i \in 1..Len(ptyIn) : ptyIn[i].src = "raw"

\* C13: a malformed frame is never fatal: whatever frame other than
\* control/quit is received while the child is alive, the consumer handles it
\* (an injection cycle, a write, or nothing) on the same connection and then
\* awaits the next frame; it neither ends nor leaves the connection.
C13_MalformedNotFatal ==
    [][\A f \in Frames :
          (f # QuitFrame /\ child = "alive" /\ RecvFrame(f)) =>
              (cpc' \in {"recv", "inj_text", "write"} /\ conns' = conns)
      ]_vars


\* the bytes the PTY has accepted for the write_bytes call of the raw frame
\* number k
RawWritten(k) == Bytes(SelectSeq(ptyIn, LAMBDA e : e.src = "raw" /\ e.id = k))

\* C14: for one write_bytes(data) call, whatever os.write accepts of each
\* chunk and however often the PTY would block, the bytes the PTY has accepted
\* for the call are the first `total` bytes of data, in order and unaltered,
\* and all of data, once, when the call has returned.
C14_WriteIntact ==
    LET data == B64Decode(recvLog[1].b64)
        got == RawWritten(1)
    IN  /\ IsPrefix(got, data)
        /\ cpc = "write" => Len(got) = cw.total
        /\ cpc = "recv" => got = data

\* a call with more than one chunk of data: the PTY has accepted the first
\* chunk and a part of the second, and would block now
C14_Witness ==
    /\ cpc = "write" /\ cSleep = WRITE_RETRY_MS
    /\ cw.total > CHUNK /\ cw.total < Len(cw.data)
    /\ Len(RawWritten(1)) = cw.total

\* C15: write_bytes returns only when the PTY has accepted all len(data)
\* bytes; when os.write accepts nothing or would block, the call sleeps 5 ms
\* and tries again with the same data and the same count: no error, no early
\* return; and when the PTY keeps eventually accepting input, the call
\* returns.
C15_WriteCompletes ==
    /\ [][(cpc = "write" /\ cpc' # "write") =>
             /\ cpc' = cw.ret
             /\ cw.total = Len(cw.data)
             /\ Len(RawWritten(1)) = Len(cw.data)]_vars
    /\ [][(cpc = "write" /\ cSleep = NoTimer /\ cw' = cw /\ ptyIn' = ptyIn /\ cpc' = "write") =>
             cSleep' = WRITE_RETRY_MS]_vars
    /\ [][(cpc = "write" /\ cSleep # NoTimer) => (cpc' = "write" /\ cw' = cw)]_vars
    /\ <>(cpc = "recv")

\* the call has returned with more than a chunk of data written
C15_Witness ==
    /\ cpc = "recv" /\ cw = NoWrite
    /\ Len(RawWritten(1)) > CHUNK
    /\ Len(RawWritten(1)) = Len(B64Decode(recvLog[1].b64))



\* C16: with reconnection on and exit-on-error off, the sleep that follows
\* the n-th transport error in a row is min(2^(n-1), 30) seconds: 1, 2, 4, 8,
\* 16, 30, 30, ...; the consumer leaves the sleep only when it is over, for
\* the top of its loop; and once the child has exited no connection is
\* attempted any more.
C16_Backoff ==
    [][/\ (cpc # "backoff" /\ cpc' = "backoff") =>
             /\ fails' >= 1
             /\ cSleep' = 1000 * (IF 2 ^ (fails' - 1) < 30 THEN 2 ^ (fails' - 1) ELSE 30)
       /\ (cpc = "backoff" /\ cpc' \notin {"backoff", "cancelled"}) =>
             (cSleep = NoTimer /\ cpc' = "loop")
       /\ child # "alive" =>
             (attempts' = attempts /\ (cpc' = "connecting" => cpc = "connecting"))]_vars

\* the sleep after the seventh error in a row
C16_Witness == cpc = "backoff" /\ fails = 7 /\ conns = 0 /\ cSleep = 30000


\* where main stands once kb.stop() has been called
AfterKbStop == mpc \in {"terminate", "grace", "killed", "exit", "exited"}

\* the shutdown steps that have been taken were taken in order
ShutdownOrder ==
    /\ (mpc \in {"kb_stop"} \/ AfterKbStop) => ConsumerDone
    /\ ~kbOn <=> AfterKbStop
    /\ termSent => (AfterKbStop /\ mpc # "terminate")
    /\ killSent => (termSent /\ mpc \in {"killed", "exit", "exited"})
    /\ mpc \in {"exit", "exited"} => child = "exited"

\* C17: on shutdown the consumer is cancelled and has finished before the
\* keyboard proxy is stopped and the terminal restored; the child is sent the
\* terminate signal after that, and only when it is still alive; it is killed
\* only when the 5 s that started with the terminate signal are over and it
\* is still alive; and main returns only when the child has exited.
C17_ShutdownOrder ==
    [][/\ ShutdownOrder'
       /\ (kbOn /\ ~kbOn') => ConsumerDone
       /\ (~termSent /\ termSent') => (child = "alive" /\ ~kbOn /\ grace' = 5000)
       /\ (mpc = "terminate" /\ child # "alive") => (~termSent' /\ ~killSent')
       /\ (~killSent /\ killSent') => (child = "alive" /\ termSent /\ grace = 0)
       /\ (mpc # "exited" /\ mpc' = "exited") => child = "exited"]_vars

\* a stop signal during an injection cycle, a child that ignores the
\* terminate signal, the kill, and the exit of the host
C17_Witness ==
    /\ mpc = "exited" /\ cpc = "cancelled" /\ ~kbOn /\ termSent /\ killSent
    /\ child = "exited" /\ Len(cycleLog) >= 1


C19_CleanExit ==
    mpc = "exited" => (~kbOn /\ fds = {} /\ child = "exited")


\* C20: no startup phase blocks for ever: once the connection is established
\* the consumer reaches the message loop, whether the readiness pattern
\* matches or not and whether the child goes quiet or not; it waits in
\* wait_ready with the event unset for 30000 ms at most, and in wait_quiet
\* for 15000 ms at most.
C20_StartupEnds ==
    /\ <>(cpc = "recv")
    /\ []((cpc = "wait_ready" /\ ~ready) => (sinceReader # NoTimer /\ sinceReader <= 30000))
    /\ [](cpc = "wait_quiet" => QuietElapsed <= 15000)

\* the pattern never matched and the child never was quiet for 800 ms: the
\* timer has latched the ready signal, and wait_quiet is about to return on
\* its deadline
C20_Witness ==
    /\ cpc = "wait_quiet" /\ cSleep = NoTimer
    /\ readyBy = "timeout" /\ sinceReader = 30000
    /\ QuietElapsed = 15000 /\ idle < 800

\* the lines a child reads when each chat text is typed as it is: text + CR
TextLines(fs) == Flatten([i \in 1..Len(fs) |-> Encode(fs[i].text) \o <<13>>])

\* C25: the text of each chat frame reaches the child's input as a line equal
\* to that text: with no keyboard input, when the frames received on the first
\* connection are chat frames, what the consumer has written to the PTY after
\* the startup sequence, once it awaits the next frame, is text + CR for each
\* frame, in order.
C25_ChatLineIsText ==
    (kbReads = 0 /\ conns = 1 /\ cpc = "recv"
       /\ \A i \in 1..Len(recvLog) : IsChatFrame(recvLog[i]) /\ recvLog[i].text # NoText) =>
        Bytes(AfterStartup(ptyIn)) = TextLines(recvLog)

\* the bytes the consumer has written to the PTY
ConsumerBytes == SelectSeq(ptyIn, LAMBDA e : e.src \in {"wake", "pre", "chat", "raw"})

\* C26: on every established connection the first thing the consumer does is
\* to send the hello frame, once: it has sent it before it writes to the PTY
\* or dispatches a frame on that connection, it awaits nothing from the feed
\* after sending it, and it sends nothing else.
C26_HelloFirst ==
    [][/\ conns' # conns => (conns' = conns + 1 /\ stages' = <<"hello">>)
       /\ conns' >= 1 =>
             /\ stages' # <<>> /\ stages'[1] = "hello"
             /\ \A k \in 2..Len(stages') : stages'[k] # "hello"
       /\ (ConsumerBytes' # ConsumerBytes \/ recvLog' # recvLog) =>
             (stages # <<>> /\ stages[1] = "hello")
       /\ (stages' = <<"hello">> /\ Running') => (cpc' = "start_reader" /\ ~ConsumerWaits')
      ]_vars

\* on the second connection: hello was sent again, and the consumer has
\* written to the PTY after it
C26_Witness ==
    /\ conns = 2 /\ stages # <<>> /\ stages[1] = "hello" /\ Len(stages) >= 3
    /\ \E i \in 1..Len(ptyIn) : ptyIn[i].src = "wake" /\ ptyIn[i].id = 2

\* a step in which only time passes: no task, callback or event acts
TimePasses ==
    /\ idle' > idle
    /\ UNCHANGED <<cpc, cw, inj, ptyIn, outputs, kbReads, readerOn, ready, mpc, child>>

\* C29: _last_activity (now - idle) is stamped only by the reader callback
\* when it has read a chunk of child output; a reader callback that reads
\* nothing, write_bytes, the injection cycles, the keyboard tasks, wait_ready
\* and wait_quiet leave it as it is (idle changes only as time passes).
C29_SingleWriter ==
    [][/\ idle' # idle =>
             \/ readerOn /\ outputs' = outputs + 1 /\ idle' = 0
             \/ TimePasses
       /\ outputs' = outputs + 1 => idle' = 0
       /\ (readerOn /\ ~readerOn') => idle' = idle
      ]_vars

\* the child has been silent for a while after its last output, and both the
\* consumer and a keyboard task have written to the PTY since
C29_Witness ==
    /\ outputs >= 1 /\ idle > 0
    /\ \E i \in 1..Len(ptyIn) : ptyIn[i].src = "kb"
    /\ \E i \in 1..Len(ptyIn) : ptyIn[i].src = "pre"

\* C21: a write of the consumer issued after the child has exited is best
\* effort: when it fails, the failure does not reach the consumer's error
\* handler (the consumer neither ends nor backs off, no failure is counted).
C21_WriteErrorSwallowed ==
    [][(child = "exited" /\ cpc = "write") =>
          (cpc' \notin {"done_error", "backoff"} /\ fails' = fails)]_vars

\* the bytes of one part ("text" or "submit") of injection cycle c that the
\* PTY has accepted
PartBytes(c, part) ==
    Bytes(SelectSeq(ptyIn, LAMBDA e : IsCycleByte(e, c) /\ e.part = part))

\* injection cycle c is under way: try_execute_prompt has not returned, or
\* its last write_bytes has not
CycleOpen(c) ==
    /\ c = Len(cycleLog)
    /\ inj # NoInj \/ (cpc = "write" /\ cw.tag.src \in {"pre", "chat"} /\ cw.tag.id = c)

\* the write of the text of the cycle under way fails
TextWriteFails ==
    /\ cpc = "write" /\ cw.tag.part = "text"
    /\ cpc' \in {"done_error", "backoff"}

\* C30: an injection cycle sleeps its pre-delay when that is positive, then
\* writes the text as it is, then sleeps the submit delay, then writes the
\* submit sequence; whenever the PTY accepts bytes, what it has got from each
\* cycle is the beginning of text + CR and nothing else.  When the write
\* of the text fails, the cycle is over: the consumer is in its error handler,
\* the submit sequence of the cycle is never written and no byte of the cycle
\* is written later.
C30_CycleOrder ==
    [][/\ (cpc # "inj_text" /\ cpc' = "inj_text") =>
             /\ inj' # NoInj
             /\ cSleep' = (IF inj'.pre > 0 THEN inj'.pre ELSE NoTimer)
       /\ (cpc = "inj_text" /\ cpc' \notin {"inj_text", "cancelled"}) =>
             /\ cSleep = NoTimer /\ cpc' = "write"
             /\ cw' = [data |-> Encode(inj.text), total |-> 0,
                       tag |-> Tag(inj.src, Len(cycleLog), "text"), ret |-> "inj_delay"]
       /\ (cpc # "inj_delay" /\ cpc' = "inj_delay") =>
             /\ cpc = "write" /\ cw.tag.part = "text"
             /\ PartBytes(Len(cycleLog), "text")' = Encode(inj.text)
       /\ (cpc = "inj_delay" /\ cpc' \notin {"inj_delay", "cancelled"}) =>
             (cpc' = "inj_submit" /\ cSleep' = SUBMIT_DELAY_MS)
       /\ (cpc = "inj_submit" /\ cpc' \notin {"inj_submit", "cancelled"}) =>
             /\ cSleep = NoTimer /\ cpc' = "write"
             /\ cw'.data = Encode(_decode_escapes(SUBMIT_SEQ)) /\ cw'.tag.part = "submit"
       /\ ptyIn' # ptyIn =>
             \A c \in 1..Len(cycleLog) :
                /\ IsPrefix(CycleBytes(c)', Encode(cycleLog[c].text) \o <<CR>>)
                /\ PartBytes(c, "submit")' # <<>> =>
                      PartBytes(c, "text")' = Encode(cycleLog[c].text)
                /\ CycleBytes(c)' # CycleBytes(c) => CycleOpen(c)
       /\ TextWriteFails => (inj' = NoInj /\ cw' = NoWrite /\ ~CycleOpen(Len(cycleLog))')
       /\ \A c \in 1..Len(cycleLog) : ~CycleOpen(c) => ~CycleOpen(c)'
      ]_vars

\* the write of the preprompt failed half way: the consumer has ended, with
\* half of the text in the PTY's input and no submit sequence
C30_Witness ==
    /\ cpc = "done_error" /\ Len(cycleLog) = 1
    /\ PartBytes(1, "text") # <<>>
    /\ PartBytes(1, "text") # Encode(cycleLog[1].text)
    /\ PartBytes(1, "submit") = <<>>

\* the bytes of keyboard read r that the PTY has accepted
KbBytes(r) == Bytes(SelectSeq(ptyIn, LAMBDA e : e.src = "kb" /\ e.id = r))

\* the keyboard tasks that forward read r
KbTasksOf(r) == {i \in 1..Len(kbTasks) : kbTasks[i].id = r}

\* C22: each read of local input creates one task of write_bytes and writes
\* nothing itself; as long as the host runs, what the PTY has accepted of a
\* read is the bytes of that read in order, each at most once: the part its
\* task has written so far, and all of it once the task has returned.
C22_KeysForwarded ==
    /\ [](Running =>
            \A r \in 1..kbReads :
               /\ Cardinality(KbTasksOf(r)) <= 1
               /\ \A i \in KbTasksOf(r) :
                     /\ kbTasks[i].data \in KeyData
                     /\ KbBytes(r) = SubSeq(kbTasks[i].data, 1, kbTasks[i].total)
               /\ KbTasksOf(r) = {} => KbBytes(r) \in KeyData)
    /\ [][kbReads' # kbReads =>
            /\ kbOn /\ kbReads' = kbReads + 1
            /\ \E data \in KeyData :
                  kbTasks' = Append(kbTasks, [data |-> data, total |-> 0,
                                              sleep |-> NoTimer, id |-> kbReads'])
            /\ UNCHANGED <<ptyIn, cpc, cw, mpc>>
         ]_vars

\* two reads were forwarded in full; the write of one of them was cut short
\* by a would-block, and other bytes went in before it resumed
C22_Witness ==
    /\ Running /\ kbReads = 2 /\ kbTasks = <<>>
    /\ \E i, j, k \in 1..Len(ptyIn) :
          /\ i < j /\ j < k
          /\ ptyIn[i].src = "kb" /\ ptyIn[k].src = "kb" /\ ptyIn[i].id = ptyIn[k].id
          /\ ~(ptyIn[j].src = "kb" /\ ptyIn[j].id = ptyIn[i].id)

\* C23 as stated: when stop() returns, whatever the order and the number of
\* calls and whether or not the restore succeeds, the callback is not
\* registered, the terminal has the attributes saved at start, and restore()
\* has run at most once.
C23_StopRestores ==
    [][kbStops' # kbStops => (~kbOn' /\ term' = "orig" /\ restores' <= 1)]_vars

\* C23, amended: stop() always returns; when it does the callback is not
\* registered and restore() has run at most once; the terminal has the
\* attributes saved at start unless tcsetattr failed in restore(), in which
\* case it stays in cbreak mode; a call after the first one, or one without
\* a start before it, changes nothing.
C23_StopIdempotent ==
    /\ [](restores <= 1 /\ (restores = 0 <=> restoreOk = "none"))
    /\ [][kbStops' # kbStops =>
            /\ kbStops' = kbStops + 1
            /\ ~kbOn' /\ ~kbRestore'
            /\ term' = "orig" <=> restoreOk' # "failed"
            /\ ~kbRestore => UNCHANGED <<kbOn, kbAdded, kbRestore, restores, restoreOk, term>>
            /\ kbRestore => restores' = restores + 1
         ]_vars

\* stop() was called three times after a start, the restore failed the first
\* time: the terminal is left in cbreak mode
C23_Witness ==
    kbStops = 3 /\ kbAdded /\ restores = 1 /\ restoreOk = "failed" /\ term = "cbreak"

\* main has ended before it created the consumer task
AbortedAtStartup == mpc = "exited" /\ cpc = "none"

\* C27: without a controlling terminal the host does not get past its first
\* step: it allocates no PTY and spawns no child.  When it has no terminal,
\* or the PTY allocation or the creation of the child fails, main ends at
\* once with a failure status: there is no child, the terminal attributes
\* are as they were, the keyboard proxy was not started, no connection to the
\* feed was attempted, and nothing happens afterwards.
C27_FatalAtStartup ==
    /\ [](term = "none" =>
            /\ mpc \in {"boot", "exited"}
            /\ child = "none" /\ fds = {})
    /\ [](AbortedAtStartup =>
            /\ exitCode = 1
            /\ child = "none" /\ term \in {"orig", "none"}
            /\ ~kbOn /\ ~kbAdded /\ attempts = 0 /\ conns = 0 /\ ptyIn = <<>>)
    /\ [][/\ (mpc = "boot" /\ term = "none") => mpc' = "exited"
          /\ (mpc \in {"boot", "spawning"} /\ mpc' = "exited") =>
                (exitCode' = 1 /\ term' = term /\ child' = "none" /\ cpc' = "none")
          /\ (mpc \in {"boot", "spawning"} /\ mpc' # mpc) =>
                mpc' \in {"spawning", "waiting", "exited"}
          /\ AbortedAtStartup => UNCHANGED vars
         ]_vars

\* the PTY was allocated and the creation of the child failed
C27_SpawnFailed == AbortedAtStartup /\ fds # {} /\ term = "orig"

\* there was no controlling terminal
C27_Witness == AbortedAtStartup /\ fds = {} /\ term = "none"

\* the bytes written to the local output
LocalBytes == Flatten([i \in 1..Len(localOut) |-> localOut[i].data])

\* the bytes of the chunks read
ChunkBytes == Flatten([i \in 1..Len(reads) |-> ChunkData(reads[i])])

\* C24: every chunk the reader callback reads is written to the local output
\* as it is and in read order, whether or not the ready event is set: the
\* local output is the concatenation of the chunks read.
C24_MirrorExact == LocalBytes = ChunkBytes

\* the text of the chunks read, each decoded and stripped, one after the other
StrippedText == Flatten([i \in 1..Len(reads) |-> _strip_ansi(Decode(ChunkData(reads[i])))])

\* the last n characters of t, or all of t when it has fewer
Suffix(t, n) == IF Len(t) > n THEN SubSeq(t, Len(t) - n + 1, Len(t)) ELSE t

\* C28: the scan buffer has at most 16384 characters and is the end of the
\* decoded and stripped text of the chunks read so far: all of it, or its
\* last 16384 characters; when the reader callback has read a chunk, the ready
\* event is set exactly if it was set before or READY_REGEX matches the
\* buffer as it is after the truncation.
C28_ScanBuffer ==
    /\ [](/\ Len(scanBuf) <= SCANNER_LIMIT
          /\ scanBuf = Suffix(StrippedText, SCANNER_LIMIT))
    /\ [][reads' # reads =>
            /\ ready' = (ready \/ ReadySearch(scanBuf'))
            /\ (readyBy' = "match" /\ readyBy # "match") <=>
                  (~ready /\ ReadySearch(scanBuf'))
         ]_vars

\* the buffer is full and has dropped its oldest characters, among them the
\* prompt that had set the ready event
C28_Witness ==
    /\ Len(StrippedText) > SCANNER_LIMIT /\ Len(scanBuf) = SCANNER_LIMIT
    /\ reads = <<"prompt", "big", "big", "big", "big">>
    /\ readyBy = "match" /\ ~ReadySearch(scanBuf)

\* the bytes of local input that the PTY has accepted
KbAll == SelectSeq(ptyIn, LAMBDA e : e.src = "kb")

\* the reads of local input whose bytes the PTY has accepted, byte by byte
KbOrder == [i \in 1..Len(KbAll) |-> KbAll[i].id]

\* C31 as stated: the bytes forwarded by the keyboard proxy are in the PTY's
\* input in the order in which they were read from local input, also when the
\* task of an earlier read is retrying while the task of a later read runs.
C31_ReadOrder ==
    \A i, j \in 1..Len(KbOrder) : i < j => KbOrder[i] <= KbOrder[j]

\* C31: the tasks write in read order as long as no write has met a
\* would-block; when the PTY accepts bytes of a read while an earlier read is
\* not forwarded in full, a write has met a would-block before and the task
\* of the earlier read is still there, and the rest of the earlier read goes
\* in after these bytes.
C31_OrderUnlessRetrying ==
    /\ [](blocks = 0 => C31_ReadOrder)
    /\ [][\A r \in 1..kbReads :
            KbBytes(r)' # KbBytes(r) =>
               \A r1 \in 1..(r - 1) :
                  KbBytes(r1) \notin KeyData =>
                     /\ blocks >= 1
                     /\ KbTasksOf(r1) # {}
                     /\ KbTasksOf(r1)' # {}
         ]_vars

\* the task of the first read wrote one byte and met a would-block; the
\* second read came during its sleep and went in whole; then the first task
\* wrote its second byte
C31_Witness ==
    /\ Running /\ kbReads = 2 /\ kbTasks = <<>>
    /\ KbOrder = <<1, 2, 2, 1>>

\* C32: the consumer comes back to the top of its loop, for a further
\* connection attempt, only out of a backoff sleep that is over, and a backoff
\* sleep lasts at least 1 s, whatever ended the previous connection: a failed
\* connect, a read error, or the server closing the connection cleanly.
C32_BackoffBeforeRetry ==
    [][/\ (cpc # "loop" /\ cpc' = "loop") => (cpc = "backoff" /\ cSleep = NoTimer)
       /\ (cpc # "backoff" /\ cpc' = "backoff") => cSleep' >= 1000 * BACKOFF_START
       /\ (cpc = "backoff" /\ cpc' \notin {"backoff", "cancelled"}) => cSleep = NoTimer
      ]_vars

\* C33: the backoff is 1 s again each time a connection is established, so
\* the sleep that follows a transport error on an established connection (the
\* first error since that connection) is 1 s, however many failures came
\* before the connection.
C33_BackoffReset ==
    [][/\ conns' # conns => backoff' = BACKOFF_START
       /\ (cpc' = "backoff" /\ cpc \notin {"backoff", "connecting"}) =>
             /\ conns >= 1
             /\ cSleep' = 1000 * BACKOFF_START
      ]_vars

\* two refused connections (sleeps of 1 s and 2 s), then a connection, then a
\* read error on it: the sleep is 1 s
C33_Witness ==
    /\ cpc = "backoff" /\ attempts = 3 /\ conns = 1 /\ fails = 1
    /\ cSleep = 1000 * BACKOFF_START

\* C34: with exit-on-error on, or with reconnection off, a transport error
\* ends the consumer in the same step: no sleep is armed, it never sleeps a
\* backoff, and once ended it makes no further connection attempt; with both
\* toggles on the consumer ends as well (exit-on-error comes first).
C34_ErrorEndsConsumer ==
    /\ []((exitOnError \/ ~reconnect) => cpc # "backoff")
    /\ [][/\ (fails' = fails + 1 /\ (exitOnError \/ ~reconnect)) =>
                (cpc' = "done_error" /\ cSleep' = NoTimer)
          /\ cpc = "done_error" =>
                (cpc' = "done_error" /\ cSleep' = NoTimer /\ attempts' = attempts)
         ]_vars

\* both toggles on: a read error on the first connection has ended the
\* consumer
C34_Witness ==
    /\ exitOnError /\ reconnect
    /\ cpc = "done_error" /\ attempts = 1 /\ conns = 1 /\ fails = 1
    /\ "preprompt" \in {stages[i] : i \in 1..Len(stages)}

\* C35: once the child has exited the consumer makes no connection attempt
\* and does not begin to connect; a frame that reaches it then is dropped:
\* nothing is dispatched, injected or written for it (the only injection that
\* can still begin is the preprompt of a startup sequence under way) and the
\* consumer goes to the top of its loop, from where it ends; and it stays
\* ended.
C35_NoDispatchAfterExit ==
    [][/\ child # "alive" =>
             /\ attempts' = attempts
             /\ recvLog' = recvLog
             /\ (cycleLog' # cycleLog => cpc = "preprompt")
             /\ (cpc' = "connecting" => cpc = "connecting")
       /\ (child # "alive" /\ cpc = "recv" /\ cpc' # "recv") =>
             /\ cpc' \in {"loop", "cancelled"}
             /\ UNCHANGED <<cw, inj, ptyIn>>
       /\ (child # "alive" /\ cpc = "loop" /\ cpc' # "loop") =>
             cpc' \in {"done_child", "cancelled"}
       /\ cpc = "done_child" => cpc' = "done_child"
      ]_vars

\* the consumer was awaiting a frame on its first connection when the child
\* exited; a frame came, was dropped, and the consumer has returned
C35_Witness ==
    /\ Running /\ child = "exited" /\ cpc = "done_child"
    /\ conns = 1 /\ recvLog = <<>> /\ cycleLog = <<[src |-> "pre", text |-> DEFAULT_PREPROMPT]>>

\* C36: the PTY reader is registered from the spawn of the child onwards,
\* whatever the state of the feed: as long as the host runs a child that is
\* alive, also before the first connection and after the consumer has ended,
\* the reader callback is there to mirror and scan the child's output and to
\* stamp the last activity.
C36_ReaderFromSpawn == (Running /\ child = "alive") => readerOn

\* C37: keyboard forwarding does not depend on the feed.  From start() until
\* kb.stop() the callback is registered; whenever the event loop polls, local
\* input can be read whatever the consumer is doing (connecting, backing off,
\* waiting for ready or quiet, sleeping within an injection, awaiting frames,
\* ended); a task that can run can write; and a read, or a write of keyboard
\* bytes, changes nothing of the consumer.
C37_KeyboardIndependent ==
    /\ []((Running /\ kbStops = 0) => kbOn)
    /\ []((AllAwait /\ kbOn /\ Budget) => ENABLED KbRead)
    /\ [](Running => \A i \in 1..Len(kbTasks) :
                        kbTasks[i].sleep = NoTimer => ENABLED KbWrite(i))
    /\ [][(kbReads' # kbReads \/ KbAll' # KbAll) => UNCHANGED consVars]_vars

\* the feed refused the only connection attempt and the consumer has ended;
\* a read of local input was forwarded in full afterwards
C37_Witness ==
    /\ Running /\ cpc = "done_error" /\ conns = 0 /\ attempts = 1
    /\ kbStops = 0 /\ kbReads = 1 /\ kbTasks = <<>> /\ KbBytes(1) \in KeyData

\* C38: a read of the PTY master that returns EOF or fails removes the reader
\* callback and does nothing else: nothing is written to the local output or
\* appended to the scan buffer, the last activity is not stamped, no chunk is
\* counted and the ready event is not touched; a read that would block
\* leaves the callback registered and changes nothing; and with the callback
\* removed a ready event that is not set still has its timeout task pending,
\* which sets it in the end.
C38_ReaderRemoved ==
    /\ [][/\ (readerOn /\ ~readerOn') =>
                UNCHANGED <<ioVars, idle, outputs, readyVars, consVars, ptyIn, blocks>>
          /\ blocks' # blocks =>
                UNCHANGED <<ioVars, readerOn, idle, outputs, readyVars, consVars, ptyIn>>
         ]_vars
    /\ []((~readerOn /\ ~ready) => readyTimers # {})
    /\ ((~readerOn /\ ~ready) ~> (ready /\ readyBy = "timeout"))

\* the reader was removed before the prompt was seen, after a chunk and a
\* read that would have blocked; the timeout has set the ready event
C38_Witness ==
    /\ ~readerOn /\ ready /\ readyBy = "timeout" /\ sinceReader = READY_TIMEOUT_MS
    /\ reads = <<"mix">> /\ blocks = 1
    /\ localOut = <<[src |-> "child", data |-> MixChunk]>>

====
